---- MODULE Spec2Model ----
(***************************************************************************)
(* A model of the Python client SDK of the artifact store                  *)
(* (src/pkg/client-python/astore_client): the error mapper                 *)
(* (exceptions.py), the transport (client.py) and the bucket, object and   *)
(* multipart operations (operations.py).                                   *)
(*                                                                         *)
(* Python values are encoded as follows.                                   *)
(*   Optional[T]   a sequence of length <= 1: None is <<>>, x is <<x>>     *)
(*   bytes         a sequence of byte values                               *)
(*   dict          a function from its keys to its values ({} is <<>>)     *)
(*   JSON value    a record [t |-> type tag, v |-> printed value]          *)
(*   exception     a record [kind, message, status_code]                   *)
(***************************************************************************)
EXTENDS Integers, Sequences, FiniteSets, TLC

VARIABLES
    process,      \* what the clients of one process share: urllib3's warning filters
    config,       \* Client.config: the Config object of the client
    session,      \* Client.session: the requests.Session (default headers)
    pc,           \* where the current SDK call stands: "idle", "uploading", "downloading",
                  \* "done" (its request is made and it has ended), "token_set"
    call,         \* the SDK call in progress, or the last one: operation and arguments
    request,      \* the HTTP requests handed to session.request during that call
    response,     \* the response session.request returned for that call (Optional)
    result,       \* how the call ended: returned value or raised exception
    stream,       \* the caller's data stream (upload) / the response body stream (download)
    bytes_read,   \* ProgressReader.bytes_read / download's bytes_transferred
    progress,     \* the values the progress callback has been invoked with, in order
    writer,       \* what download has written to the caller's writer
    sent,         \* the request body bytes put on the wire by the upload in progress
    store         \* the server's objects: key -> Optional[bytes]

vars == <<process, config, session, pc, call, request, response, result, stream,
          bytes_read, progress, writer, sent, store>>

(***************************************************************************)
(* Bounds of the model.                                                    *)
(***************************************************************************)
\* longest byte sequence a caller uploads
MaxLen == 2
\* longest parts list given to complete_multipart_upload
MaxParts == 2
\* the chunk size of a transfer. operations.py:100 and :271 use 8192; the
\* model scales it down so that transfers of MaxLen bytes span several chunks
chunk_size == 2

None == <<>>
Some(x) == <<x>>

Min(a, b) == IF a <= b THEN a ELSE b

(***************************************************************************)
(* JSON values, and the bodies a server may answer with.                   *)
(***************************************************************************)
JStr(s) == [t |-> "str", v |-> s]
JNum(n) == [t |-> "num", v |-> n]
JBool(b) == [t |-> "bool", v |-> b]
JList(items) == [t |-> "list", v |-> items]
JDict(fields) == [t |-> "dict", v |-> fields]
JNull == [t |-> "null", v |-> ""]

\* str(n) of a non-negative integer, as the f-string of exceptions.py:73 prints it
Digit(d) ==
    CASE d = 0 -> "0" [] d = 1 -> "1" [] d = 2 -> "2" [] d = 3 -> "3"
      [] d = 4 -> "4" [] d = 5 -> "5" [] d = 6 -> "6" [] d = 7 -> "7"
      [] d = 8 -> "8" [] d = 9 -> "9"

RECURSIVE IntToStr(_)
IntToStr(n) == IF n < 10 THEN Digit(n) ELSE IntToStr(n \div 10) \o Digit(n % 10)

\* Body texts of error responses
ErrorBodies ==
    { "",
      "Not Found",
      "{\"error\": \"Bucket already exists\"}",
      "{\"error\": \"Artifact not found\"}",
      "{\"error\": null}",
      "{\"error\": 42}",
      "{\"message\": \"oops\"}",
      "[\"error\"]" }

\* response.json(): the parsed document, or a raised JSONDecodeError (ok = FALSE).
\* kind is the Python type of the document; fields are those of a dict.
EmptyDict == [k \in {} |-> JNull]
NotJson == [ok |-> FALSE, kind |-> "", fields |-> EmptyDict]
JObject(fields) == [ok |-> TRUE, kind |-> "dict", fields |-> fields]
JArray == [ok |-> TRUE, kind |-> "list", fields |-> EmptyDict]

\* Body texts of successful responses, and the documents they denote
BucketsBody ==
    "{\"buckets\": [{\"name\": \"bucket1\", \"creationDate\": \"2024-01-15T10:30:00Z\"}]}"
BucketsBodyNoDate == "{\"buckets\": [{\"name\": \"bucket1\"}]}"
ObjectsBody ==
    "{\"contents\": [{\"key\": \"k1\", \"size\": 2, \"lastModified\": \"2024-01-15T10:30:00Z\", \"etag\": \"e1\", \"contentType\": \"text/plain\"}], \"prefix\": \"app/\", \"maxKeys\": 10, \"isTruncated\": true}"
ObjectsBodyKeyOnly == "{\"contents\": [{\"key\": \"k1\"}]}"
ObjectsBodyNoKey == "{\"contents\": [{\"size\": 2}]}"
ObjectsBodyTwo ==
    "{\"contents\": [{\"key\": \"k1\", \"size\": 2, \"lastModified\": \"2024-01-15T10:30:00Z\", \"etag\": \"e1\", \"contentType\": \"text/plain\"}, {\"key\": \"k2\"}]}"
ObjectsBodyKeyThenNoKey == "{\"contents\": [{\"key\": \"k1\"}, {\"size\": 2}]}"
ObjectsBodyMaxKeysZero == "{\"contents\": [], \"maxKeys\": 0}"
ObjectsBodyMaxKeysNegative == "{\"contents\": [], \"maxKeys\": -1}"
SignatureBody ==
    "{\"id\": \"sig1\", \"artifactDigest\": \"sha256:ab\", \"signature\": \"c2ln\", \"algorithm\": \"RSA-SHA256\", \"signedBy\": \"ci\", \"timestamp\": \"2024-01-15T10:30:00Z\"}"
SignatureBodyNoTimestamp ==
    "{\"id\": \"sig1\", \"artifactDigest\": \"sha256:ab\", \"signature\": \"c2ln\", \"algorithm\": \"RSA-SHA256\", \"signedBy\": \"ci\"}"
SignaturesBody == "{\"signatures\": [" \o SignatureBody \o "]}"
SignaturesBodyNoTimestamp == "{\"signatures\": [" \o SignatureBodyNoTimestamp \o "]}"
VerifyBody ==
    "{\"valid\": true, \"message\": \"ok\", \"signatures\": [" \o SignatureBody \o "]}"
VerifyBodyNoMessage == "{\"valid\": true}"
VerifyBodyNoTimestamp ==
    "{\"valid\": true, \"message\": \"ok\", \"signatures\": [" \o SignatureBodyNoTimestamp \o "]}"
SignaturesBodyMixed ==
    "{\"signatures\": [" \o SignatureBody \o ", " \o SignatureBodyNoTimestamp \o "]}"
SbomBody ==
    "{\"id\": \"sbom1\", \"artifactDigest\": \"sha256:ab\", \"format\": \"spdx\", \"content\": \"{}\", \"timestamp\": \"2024-01-15T10:30:00Z\"}"
SbomBodyNoTimestamp ==
    "{\"id\": \"sbom1\", \"artifactDigest\": \"sha256:ab\", \"format\": \"spdx\", \"content\": \"{}\"}"
AttestationBody ==
    "{\"id\": \"att1\", \"artifactDigest\": \"sha256:ab\", \"type\": \"build\", \"data\": {}, \"timestamp\": \"2024-01-15T10:30:00Z\"}"
AttestationBodyBadTimestamp ==
    "{\"id\": \"att1\", \"artifactDigest\": \"sha256:ab\", \"type\": \"build\", \"data\": {}, \"timestamp\": \"yesterday\"}"
AttestationBodyNoTimestamp ==
    "{\"id\": \"att1\", \"artifactDigest\": \"sha256:ab\", \"type\": \"build\", \"data\": {}}"
AttestationsBody == "{\"attestations\": [" \o AttestationBody \o "]}"
AttestationsBodyMixed ==
    "{\"attestations\": [" \o AttestationBody \o ", " \o AttestationBodyNoTimestamp \o "]}"
AttestationsBodyBadTimestamp ==
    "{\"attestations\": [" \o AttestationBodyBadTimestamp \o "]}"

Timestamp == JStr("2024-01-15T10:30:00Z")
BucketDoc == [name |-> JStr("bucket1"), creationDate |-> Timestamp]
ObjectDoc ==
    [key |-> JStr("k1"), size |-> JNum(2), lastModified |-> Timestamp,
     etag |-> JStr("e1"), contentType |-> JStr("text/plain")]
SignatureDocNoTimestamp ==
    [id |-> JStr("sig1"), artifactDigest |-> JStr("sha256:ab"),
     signature |-> JStr("c2ln"), algorithm |-> JStr("RSA-SHA256"),
     signedBy |-> JStr("ci")]
SignatureDoc == SignatureDocNoTimestamp @@ [timestamp |-> Timestamp]
SbomDocNoTimestamp ==
    [id |-> JStr("sbom1"), artifactDigest |-> JStr("sha256:ab"),
     format |-> JStr("spdx"), content |-> JStr("{}")]
SbomDoc == SbomDocNoTimestamp @@ [timestamp |-> Timestamp]
AttestationDocNoTimestamp ==
    [id |-> JStr("att1"), artifactDigest |-> JStr("sha256:ab"),
     type |-> JStr("build"), data |-> JDict(EmptyDict)]
AttestationDoc == AttestationDocNoTimestamp @@ [timestamp |-> Timestamp]
AttestationDocBadTimestamp ==
    AttestationDocNoTimestamp @@ [timestamp |-> JStr("yesterday")]

response_json(text) ==
    CASE text = "{\"error\": \"Bucket already exists\"}" ->
              JObject([error |-> JStr("Bucket already exists")])
      [] text = "{\"error\": \"Artifact not found\"}" ->
              JObject([error |-> JStr("Artifact not found")])
      [] text = "{\"error\": null}" -> JObject([error |-> JNull])
      [] text = "{\"error\": 42}" -> JObject([error |-> JNum(42)])
      [] text = "{\"message\": \"oops\"}" -> JObject([message |-> JStr("oops")])
      [] text = "{\"uploadId\": \"u1\"}" -> JObject([uploadId |-> JStr("u1")])
      [] text = "{\"uploadId\": \"u2\"}" -> JObject([uploadId |-> JStr("u2")])
      [] text = "{}" -> JObject(EmptyDict)
      [] text = "[\"error\"]" -> JArray
      [] text = BucketsBody -> JObject([buckets |-> JList(<<BucketDoc>>)])
      [] text = BucketsBodyNoDate ->
              JObject([buckets |-> JList(<<[name |-> JStr("bucket1")]>>)])
      [] text = ObjectsBody ->
              JObject([contents |-> JList(<<ObjectDoc>>), prefix |-> JStr("app/"),
                       maxKeys |-> JNum(10), isTruncated |-> JBool(TRUE)])
      [] text = ObjectsBodyKeyOnly ->
              JObject([contents |-> JList(<<[key |-> JStr("k1")]>>)])
      [] text = ObjectsBodyNoKey ->
              JObject([contents |-> JList(<<[size |-> JNum(2)]>>)])
      [] text = ObjectsBodyTwo ->
              JObject([contents |-> JList(<<ObjectDoc, [key |-> JStr("k2")]>>)])
      [] text = ObjectsBodyKeyThenNoKey ->
              JObject([contents |-> JList(<<[key |-> JStr("k1")],
                                            [size |-> JNum(2)]>>)])
      [] text = ObjectsBodyMaxKeysZero ->
              JObject([contents |-> JList(<<>>), maxKeys |-> JNum(0)])
      [] text = ObjectsBodyMaxKeysNegative ->
              JObject([contents |-> JList(<<>>), maxKeys |-> JNum(-1)])
      [] text = SignatureBody -> JObject(SignatureDoc)
      [] text = SignatureBodyNoTimestamp -> JObject(SignatureDocNoTimestamp)
      [] text = SignaturesBody -> JObject([signatures |-> JList(<<SignatureDoc>>)])
      [] text = SignaturesBodyNoTimestamp ->
              JObject([signatures |-> JList(<<SignatureDocNoTimestamp>>)])
      [] text = VerifyBody ->
              JObject([valid |-> JBool(TRUE), message |-> JStr("ok"),
                       signatures |-> JList(<<SignatureDoc>>)])
      [] text = VerifyBodyNoMessage -> JObject([valid |-> JBool(TRUE)])
      [] text = VerifyBodyNoTimestamp ->
              JObject([valid |-> JBool(TRUE), message |-> JStr("ok"),
                       signatures |-> JList(<<SignatureDocNoTimestamp>>)])
      [] text = SignaturesBodyMixed ->
              JObject([signatures |-> JList(<<SignatureDoc, SignatureDocNoTimestamp>>)])
      [] text = AttestationBodyNoTimestamp -> JObject(AttestationDocNoTimestamp)
      [] text = AttestationsBodyMixed ->
              JObject([attestations |->
                          JList(<<AttestationDoc, AttestationDocNoTimestamp>>)])
      [] text = SbomBody -> JObject(SbomDoc)
      [] text = SbomBodyNoTimestamp -> JObject(SbomDocNoTimestamp)
      [] text = AttestationBody -> JObject(AttestationDoc)
      [] text = AttestationBodyBadTimestamp -> JObject(AttestationDocBadTimestamp)
      [] text = AttestationsBody ->
              JObject([attestations |-> JList(<<AttestationDoc>>)])
      [] text = AttestationsBodyBadTimestamp ->
              JObject([attestations |-> JList(<<AttestationDocBadTimestamp>>)])
      [] OTHER -> NotJson

\* dict.get(name, default)
dict_get(fields, name, default) ==
    IF name \in DOMAIN fields THEN fields[name] ELSE default

(***************************************************************************)
(* exceptions.py: the error classes and raise_for_status.                  *)
(***************************************************************************)
\* ArtifactStoreError.__init__(message, status_code=None)
ArtifactStoreError(message, status_code) ==
    [kind |-> "ArtifactStoreError", message |-> message, status_code |-> status_code]

\* the seven subclasses: __init__(message) calls super().__init__(message, <code>)
BadRequestError(message) ==
    [ArtifactStoreError(message, Some(400)) EXCEPT !.kind = "BadRequestError"]
UnauthorizedError(message) ==
    [ArtifactStoreError(message, Some(401)) EXCEPT !.kind = "UnauthorizedError"]
ForbiddenError(message) ==
    [ArtifactStoreError(message, Some(403)) EXCEPT !.kind = "ForbiddenError"]
NotFoundError(message) ==
    [ArtifactStoreError(message, Some(404)) EXCEPT !.kind = "NotFoundError"]
ConflictError(message) ==
    [ArtifactStoreError(message, Some(409)) EXCEPT !.kind = "ConflictError"]
InternalServerError(message) ==
    [ArtifactStoreError(message, Some(500)) EXCEPT !.kind = "InternalServerError"]
ServiceUnavailableError(message) ==
    [ArtifactStoreError(message, Some(503)) EXCEPT !.kind = "ServiceUnavailableError"]

\* an exception of another library or of Python itself (no status_code attribute)
OtherError(kind) == [kind |-> kind, message |-> JNull, status_code |-> None]

NoError == [kind |-> "", message |-> JNull, status_code |-> None]

\* a faulty variant of error_message: no "HTTP <code>" for an empty body
error_message_without_fallback(resp) ==
    LET error_data == response_json(resp.text)
    IN  IF error_data.ok /\ error_data.kind = "dict"
        THEN dict_get(error_data.fields, "error", JStr(resp.text))
        ELSE JStr(resp.text)

\* lines 69-73: the message of the error
error_message(resp) ==
    LET error_data == response_json(resp.text)
    IN  IF error_data.ok /\ error_data.kind = "dict"
        THEN \* error_data.get("error", response.text)
             dict_get(error_data.fields, "error", JStr(resp.text))
        ELSE \* except Exception: JSONDecodeError, or AttributeError (no .get)
             IF resp.text # "" THEN JStr(resp.text)
             ELSE JStr("HTTP " \o IntToStr(resp.status_code))

\* a faulty variant of error_class: 409 is mapped to the class of 404
error_class_conflict_as_not_found(status_code, message) ==
    CASE status_code = 400 -> BadRequestError(message)
      [] status_code = 401 -> UnauthorizedError(message)
      [] status_code = 403 -> ForbiddenError(message)
      [] status_code = 404 -> NotFoundError(message)
      [] status_code = 409 -> NotFoundError(message)
      [] status_code = 500 -> InternalServerError(message)
      [] status_code = 503 -> ServiceUnavailableError(message)
      [] OTHER -> ArtifactStoreError(message, None)

\* lines 75-86: error_map.get(status_code, ArtifactStoreError)(message)
error_class(status_code, message) ==
    CASE status_code = 400 -> BadRequestError(message)
      [] status_code = 401 -> UnauthorizedError(message)
      [] status_code = 403 -> ForbiddenError(message)
      [] status_code = 404 -> NotFoundError(message)
      [] status_code = 409 -> ConflictError(message)
      [] status_code = 500 -> InternalServerError(message)
      [] status_code = 503 -> ServiceUnavailableError(message)
      [] OTHER -> ArtifactStoreError(message, None)

\* a faulty variant of raise_for_status: redirects are errors too
raise_for_status_from_300(resp) ==
    IF resp.status_code < 300 THEN NoError
    ELSE error_class(resp.status_code, error_message(resp))

\* raise_for_status(response): the exception raised, NoError when it returns
raise_for_status(resp) ==
    IF resp.status_code < 400 THEN NoError
    ELSE error_class(resp.status_code, error_message(resp))

(***************************************************************************)
(* client.py: Config, Client.__init__, set_token, _request.                *)
(***************************************************************************)
\* Header names. A Python str is a sequence of characters: HeaderNames are
\* the header names that occur, character by character, and Str gives the
\* string of a sequence of characters.
RECURSIVE Str(_)
Str(cs) == IF cs = <<>> THEN "" ELSE Head(cs) \o Str(Tail(cs))

\* "X-Amz-Meta-" in three spellings, and metadata keys
XAmzMeta == <<"X", "-", "A", "m", "z", "-", "M", "e", "t", "a", "-">>
xamzmeta == <<"x", "-", "a", "m", "z", "-", "m", "e", "t", "a", "-">>
XAMZMETA == <<"X", "-", "A", "M", "Z", "-", "M", "E", "T", "A", "-">>
MetadataKeyNames == {<<"v", "e", "r", "s", "i", "o", "n">>, <<"V", "e", "r", "s", "i", "o", "n">>, <<"B", "u", "i", "l", "d">>}

HeaderNames ==
    { <<"U", "s", "e", "r", "-", "A", "g", "e", "n", "t">>,
      <<"A", "u", "t", "h", "o", "r", "i", "z", "a", "t", "i", "o", "n">>,
      <<"a", "u", "t", "h", "o", "r", "i", "z", "a", "t", "i", "o", "n">>,
      <<"C", "o", "n", "t", "e", "n", "t", "-", "T", "y", "p", "e">>,
      <<"C", "o", "n", "t", "e", "n", "t", "-", "L", "e", "n", "g", "t", "h">>,
      <<"R", "a", "n", "g", "e">>,
      <<"E", "T", "a", "g">>,
      <<"L", "a", "s", "t", "-", "M", "o", "d", "i", "f", "i", "e", "d">>,
      <<"X", "-", "A", "m", "z", "-", "C", "o", "p", "y", "-", "S", "o", "u", "r", "c", "e">>,
      <<"X", "-", "A", "m", "z", "-", "M", "e", "t", "a", "d", "a", "t", "a">> }
    \cup {p \o k : p \in {XAmzMeta, xamzmeta, XAMZMETA}, k \in MetadataKeyNames}

\* the characters of a header name given as a string
CharsOf == [s \in {Str(n) : n \in HeaderNames} |->
               CHOOSE n \in HeaderNames : Str(n) = s]

\* str.lower()
lower_char(c) ==
    CASE c = "A" -> "a"
      [] c = "B" -> "b"
      [] c = "C" -> "c"
      [] c = "D" -> "d"
      [] c = "E" -> "e"
      [] c = "F" -> "f"
      [] c = "G" -> "g"
      [] c = "H" -> "h"
      [] c = "I" -> "i"
      [] c = "J" -> "j"
      [] c = "K" -> "k"
      [] c = "L" -> "l"
      [] c = "M" -> "m"
      [] c = "N" -> "n"
      [] c = "O" -> "o"
      [] c = "P" -> "p"
      [] c = "Q" -> "q"
      [] c = "R" -> "r"
      [] c = "S" -> "s"
      [] c = "T" -> "t"
      [] c = "U" -> "u"
      [] c = "V" -> "v"
      [] c = "W" -> "w"
      [] c = "X" -> "x"
      [] c = "Y" -> "y"
      [] c = "Z" -> "z"
      [] OTHER -> c
lower(cs) == [i \in 1..Len(cs) |-> lower_char(cs[i])]

\* str.startswith(prefix)
startswith(cs, prefix) ==
    Len(cs) >= Len(prefix) /\ SubSeq(cs, 1, Len(prefix)) = prefix

\* the lower-cased name under which requests' CaseInsensitiveDict files a header
LowerOf == [s \in DOMAIN CharsOf |-> Str(lower(CharsOf[s]))]

\* str.strip(chars) on a string given as a sequence of characters
RECURSIVE lstrip(_, _)
lstrip(s, chars) ==
    IF s # <<>> /\ Head(s) \in chars THEN lstrip(Tail(s), chars) ELSE s
RECURSIVE rstrip(_, _)
rstrip(s, chars) ==
    IF s # <<>> /\ s[Len(s)] \in chars
    THEN rstrip(SubSeq(s, 1, Len(s) - 1), chars) ELSE s
strip(s, chars) == rstrip(lstrip(s, chars), chars)

\* truthiness of an Optional[str]: None and "" are falsy
Truthy(opt) == opt # None /\ opt[1] # ""

\* URLs are strings given as sequences of characters
Https == <<"h", "t", "t", "p", "s", ":", "/", "/">>
TestUrl == Https \o <<"t", "e", "s", "t", ".", "e", "x", "a", "m", "p", "l", "e", ".", "c", "o", "m">>

\* a faulty variant of Config: the base URL is stored as given
Config_without_rstrip(base_url, token, timeout, insecure_skip_verify, user_agent) ==
    [base_url |-> base_url, token |-> token, timeout |-> timeout,
     insecure_skip_verify |-> insecure_skip_verify, user_agent |-> user_agent]

\* Config.__init__, lines 53-57: the attributes of a Config whose base_url
\* passed the check of line 50
Config(base_url, token, timeout, insecure_skip_verify, user_agent) ==
    [base_url |-> rstrip(base_url, {"/"}), token |-> token, timeout |-> timeout,
     insecure_skip_verify |-> insecure_skip_verify, user_agent |-> user_agent]

\* Client.__init__, lines 81-91: the session and its default headers
NewSession(cfg) ==
    [headers |-> IF Truthy(cfg.token)
                 THEN ("User-Agent" :> cfg.user_agent)
                      @@ ("Authorization" :> ("Bearer " \o cfg.token[1]))
                 ELSE ("User-Agent" :> cfg.user_agent),
     verify |-> ~cfg.insecure_skip_verify]

\* a process in which urllib3 has its default warning filters
NewProcess == [insecure_warnings_disabled |-> FALSE]

\* Client.__init__, lines 90-94: urllib3.disable_warnings(InsecureRequestWarning)
\* adds an "ignore" filter to the warning filters of the process
disable_warnings(proc, cfg) ==
    IF cfg.insecure_skip_verify
    THEN [proc EXCEPT !.insecure_warnings_disabled = TRUE]
    ELSE proc

\* update of the session's (case-insensitive) headers: an entry of new
\* replaces the entry of old whose name is the same ignoring case, and of
\* the entries of new with the same name ignoring case one is kept
dict_update(old, new) ==
    LET kept_new == {(CHOOSE j \in DOMAIN new : LowerOf[j] = LowerOf[k]) :
                        k \in DOMAIN new}
        kept_old == {k \in DOMAIN old :
                        \A j \in DOMAIN new : LowerOf[j] # LowerOf[k]}
    IN  [k \in kept_new \cup kept_old |-> IF k \in kept_new THEN new[k] ELSE old[k]]

\* what the network and the server answer to one session.request call:
\* a transport failure, or a response
NoResponse == [status_code |-> 0, text |-> "", headers |-> EmptyDict, content |-> <<>>]
TransportFailure == [failed |-> TRUE, resp |-> NoResponse]
Answer(resp) == [failed |-> FALSE, resp |-> resp]

\* session.request(method, url, **kwargs): requests merges the session's
\* default headers under the headers of the call (none when kwargs has no headers)
PreparedRequest(sess, method, path, kwargs) ==
    [method |-> method, path |-> path,
     headers |-> dict_update(sess.headers, kwargs.headers),
     params |-> kwargs.params, json |-> kwargs.json,
     data |-> kwargs.data, stream |-> kwargs.stream, timeout |-> kwargs.timeout]

\* keyword arguments of a _request call
Kwargs(params, json, data, streamed) ==
    [params |-> params, json |-> json, data |-> data, stream |-> streamed]

\* a faulty variant of _request: a failed attempt is made once more
_request_with_retry(cfg, sess, method, path, headers, kwargs, wire) ==
    LET request_headers ==
            IF DOMAIN headers # {}
            THEN dict_update(sess.headers, headers)
            ELSE EmptyDict
        kw == [params |-> kwargs.params, json |-> kwargs.json, data |-> kwargs.data,
               stream |-> kwargs.stream, headers |-> request_headers,
               timeout |-> cfg.timeout]
        req == PreparedRequest(sess, method, path, kw)
        failed == wire.failed \/ wire.resp.status_code >= 500
    IN  [session |-> sess,
         sent |-> IF failed THEN <<req, req>> ELSE <<req>>,
         response |-> IF wire.failed THEN None ELSE Some(wire.resp),
         exc |-> IF wire.failed THEN OtherError("requests.RequestException")
                 ELSE raise_for_status(wire.resp)]

\* a faulty variant of _request: a transport failure is raised as the
\* generic SDK error
_request_transport_as_sdk_error(cfg, sess, method, path, headers, kwargs, wire) ==
    LET request_headers ==
            IF DOMAIN headers # {}
            THEN dict_update(sess.headers, headers)
            ELSE EmptyDict
        kw == [params |-> kwargs.params, json |-> kwargs.json, data |-> kwargs.data,
               stream |-> kwargs.stream, headers |-> request_headers,
               timeout |-> cfg.timeout]
        req == PreparedRequest(sess, method, path, kw)
    IN  [session |-> sess,
         sent |-> <<req>>,
         response |-> IF wire.failed THEN None ELSE Some(wire.resp),
         exc |-> IF wire.failed
                 THEN ArtifactStoreError(JStr("connection failed"), None)
                 ELSE raise_for_status(wire.resp)]

\* a faulty variant of _request: the per-call headers are put into the
\* session's own headers, not into a copy
_request_updating_session(cfg, sess, method, path, headers, kwargs, wire) ==
    LET request_headers ==
            IF DOMAIN headers # {}
            THEN dict_update(sess.headers, headers)
            ELSE EmptyDict
        kw == [params |-> kwargs.params, json |-> kwargs.json, data |-> kwargs.data,
               stream |-> kwargs.stream, headers |-> request_headers,
               timeout |-> cfg.timeout]
        req == PreparedRequest(sess, method, path, kw)
    IN  [session |-> [sess EXCEPT !.headers = dict_update(@, headers)],
         sent |-> <<req>>,
         response |-> IF wire.failed THEN None ELSE Some(wire.resp),
         exc |-> IF wire.failed THEN OtherError("requests.RequestException")
                 ELSE raise_for_status(wire.resp)]

\* a faulty variant of _request: the status of the response is not looked at
_request_without_raise_for_status(cfg, sess, method, path, headers, kwargs, wire) ==
    LET request_headers ==
            IF DOMAIN headers # {}
            THEN dict_update(sess.headers, headers)
            ELSE EmptyDict
        kw == [params |-> kwargs.params, json |-> kwargs.json, data |-> kwargs.data,
               stream |-> kwargs.stream, headers |-> request_headers,
               timeout |-> cfg.timeout]
        req == PreparedRequest(sess, method, path, kw)
    IN  [session |-> sess,
         sent |-> <<req>>,
         response |-> IF wire.failed THEN None ELSE Some(wire.resp),
         exc |-> IF wire.failed THEN OtherError("requests.RequestException")
                 ELSE NoError]

\* a faulty variant of _request: on a name collision the session's default
\* value is kept
_request_defaults_take_precedence(cfg, sess, method, path, headers, kwargs, wire) ==
    LET request_headers ==
            IF DOMAIN headers # {}
            THEN dict_update(headers, sess.headers)
            ELSE EmptyDict
        kw == [params |-> kwargs.params, json |-> kwargs.json, data |-> kwargs.data,
               stream |-> kwargs.stream, headers |-> request_headers,
               timeout |-> cfg.timeout]
        req == PreparedRequest(sess, method, path, kw)
    IN  [session |-> sess,
         sent |-> <<req>>,
         response |-> IF wire.failed THEN None ELSE Some(wire.resp),
         exc |-> IF wire.failed THEN OtherError("requests.RequestException")
                 ELSE raise_for_status(wire.resp)]

\* Client._request, lines 136-145. wire is the answer to the session.request
\* call of line 143. The result: the requests handed to session.request, the
\* response received (Optional), and the exception raised (NoError: returned).
_request(cfg, sess, method, path, headers, kwargs, wire) ==
    LET request_headers ==
            IF DOMAIN headers # {}
            THEN dict_update(sess.headers, headers)   \* copy(), update(headers)
            ELSE EmptyDict                            \* kwargs gets no "headers"
        kw == [params |-> kwargs.params, json |-> kwargs.json, data |-> kwargs.data,
               stream |-> kwargs.stream, headers |-> request_headers,
               timeout |-> cfg.timeout]               \* setdefault("timeout", ...)
        req == PreparedRequest(sess, method, path, kw)
    IN  [session |-> sess,   \* the update went to a copy: the session is as it was
         sent |-> <<req>>,
         response |-> IF wire.failed THEN None ELSE Some(wire.resp),
         exc |-> IF wire.failed THEN OtherError("requests.RequestException")
                 ELSE raise_for_status(wire.resp)]

(***************************************************************************)
(* The values callers pass and servers answer with.                        *)
(***************************************************************************)
SeqsUpTo(S, n) == UNION {[1..m -> S] : m \in 0..n}

Buckets == {"b1"}
Keys == {"k1"}
ByteValues == {0, 1}
Datas == SeqsUpTo(ByteValues, MaxLen)
Tokens == {"t0"}
UploadIds == {"u1", "u2"}
PartNumbers == {1, 2}
Etags == {"e1", "e2"}
Metadatas ==
    { EmptyDict, ("version" :> "1.0.0"),
      ("version" :> "1.0.0") @@ ("Version" :> "2.0.0") }
ContentTypes == {"application/octet-stream"}
ByteRanges == {None, Some("bytes=0-0")}

\* models.py CompletedPart
CompletedPart(part_number, etag) == [part_number |-> part_number, etag |-> etag]
CompletedParts == {CompletedPart(n, e) : n \in PartNumbers, e \in Etags}
PartLists == SeqsUpTo(CompletedParts, MaxParts)

Response(status_code, text, headers, content) ==
    [status_code |-> status_code, text |-> text, headers |-> headers,
     content |-> content]

\* every status code and error body, for a direct call of _request
AllStatuses == 100..599
AllResponses ==
    {Response(st, text, EmptyDict, <<>>) : st \in AllStatuses, text \in ErrorBodies}

\* the answers the operations are run against
SuccessStatuses == {200, 204, 301}
ErrorStatuses == {400, 404, 409, 418, 503}
OperationErrorBodies ==
    {"", "Not Found", "{\"error\": \"Bucket already exists\"}", "{\"error\": null}"}
ErrorResponses ==
    {Response(st, text, EmptyDict, <<>>) :
        st \in ErrorStatuses, text \in OperationErrorBodies}

\* every answer to a request whose successful responses have a body text
\* of bodies and headers of headerses
Wire(bodies, headerses) ==
    {TransportFailure}
    \cup {Answer(r) : r \in ErrorResponses}
    \cup {Answer(Response(st, text, h, <<>>)) :
             st \in SuccessStatuses, text \in bodies, h \in headerses}

(***************************************************************************)
(* How an SDK call ends.                                                   *)
(***************************************************************************)
NoResult == [state |-> "none", value |-> None, exc |-> NoError]
Returned(value) == [state |-> "returned", value |-> value, exc |-> NoError]
Raised(exc) == [state |-> "raised", value |-> None, exc |-> exc]
NoCall == [op |-> "", args |-> EmptyDict]

Init ==
    /\ process = NewProcess
    /\ config \in {Config(TestUrl, token, 60, FALSE, "astore-python/1.0.0") :
                       token \in {None, Some("t0")}}
    /\ session = NewSession(config)
    /\ pc = "idle"
    /\ call = NoCall
    /\ request = <<>>
    /\ response = None
    /\ result = NoResult
    /\ stream = <<>>
    /\ bytes_read = 0
    /\ progress = <<>>
    /\ writer = <<>>
    /\ sent = <<>>
    /\ store = [k \in Keys |-> None]

\* a faulty variant of set_token_effect: the session keeps its header
set_token_config_only(cfg, sess, token) ==
    [config |-> [cfg EXCEPT !.token = Some(token)], session |-> sess]

\* Client.set_token, lines 107-108: the config and session it leaves
set_token_effect(cfg, sess, token) ==
    [config |-> [cfg EXCEPT !.token = Some(token)],
     session |-> [sess EXCEPT !.headers =
                     dict_update(@, "Authorization" :> ("Bearer " \o token))]]

\* Client.set_token, lines 100-108: a call that makes no request
set_token(token) ==
    /\ pc = "idle"
    /\ config' = set_token_effect(config, session, token).config
    /\ session' = set_token_effect(config, session, token).session
    /\ call' = [op |-> "set_token", args |-> [token |-> token]]
    /\ result' = Returned(None)
    /\ pc' = "token_set"
    /\ UNCHANGED <<process, request, response, stream, bytes_read, progress,
                   writer, sent, store>>

\* the end of an SDK call that made the _request r and, when that raised
\* nothing, went on to produce decoded (a Returned or a Raised)
Finish(c, r, decoded) ==
    /\ call' = c
    /\ session' = r.session
    /\ request' = r.sent
    /\ response' = r.response
    /\ result' = IF r.exc # NoError THEN Raised(r.exc) ELSE decoded
    /\ pc' = "done"
    /\ UNCHANGED <<process, config, stream, bytes_read, progress, writer, sent>>

\* the caller takes the result (or catches the exception) of the finished
\* call and is free to make the next one, with fresh streams
Return ==
    /\ pc \in {"done", "token_set"}
    /\ pc' = "idle"
    /\ call' = NoCall
    /\ request' = <<>>
    /\ response' = None
    /\ result' = NoResult
    /\ stream' = <<>>
    /\ bytes_read' = 0
    /\ progress' = <<>>
    /\ writer' = <<>>
    /\ sent' = <<>>
    /\ UNCHANGED <<process, config, session, store>>

\* whether the _request r brought back a response with status < 400
Succeeded(r) == r.exc = NoError /\ r.response # None

\* a direct call of Client._request (lines 114-145) with no headers
Request ==
    /\ pc = "idle"
    /\ \E wire \in {TransportFailure} \cup {Answer(resp) : resp \in AllResponses} :
          LET r == _request(config, session, "GET", "/s3", EmptyDict,
                            Kwargs(EmptyDict, None, None, FALSE), wire)
          IN  Finish([op |-> "_request", args |-> EmptyDict], r,
                     Returned(r.response))
    /\ UNCHANGED store

\* the headers a caller of _request passes: names the session has too (in
\* the same and in another letter case), and a name it has not
RequestHeaders ==
    { "User-Agent" :> "custom/1.0", "Authorization" :> "Bearer other",
      "authorization" :> "Bearer other", "Range" :> "bytes=0-0" }

\* a direct call of Client._request (lines 114-145) with headers
RequestWithHeaders ==
    /\ pc = "idle"
    /\ \E headers \in RequestHeaders,
          wire \in {TransportFailure, Answer(Response(200, "", EmptyDict, <<>>)),
                    Answer(Response(404, "Not Found", EmptyDict, <<>>))} :
          LET r == _request(config, session, "GET", "/s3", headers,
                            Kwargs(EmptyDict, None, None, FALSE), wire)
          IN  Finish([op |-> "_request", args |-> [headers |-> headers]], r,
                     Returned(r.response))
    /\ UNCHANGED store

(***************************************************************************)
(* operations.py: bucket operations.                                       *)
(***************************************************************************)
BucketPath(bucket) == "/s3/" \o bucket
ObjectPath(bucket, key) == "/s3/" \o bucket \o "/" \o key

NoKwargs == Kwargs(EmptyDict, None, None, FALSE)

\* Operations.create_bucket, lines 27-28
create_bucket ==
    /\ pc = "idle"
    /\ \E bucket \in Buckets, wire \in Wire({""}, {EmptyDict}) :
          Finish([op |-> "create_bucket", args |-> [bucket |-> bucket]],
                 _request(config, session, "PUT", BucketPath(bucket), EmptyDict,
                          NoKwargs, wire),
                 Returned(None))
    /\ UNCHANGED store

\* Operations.delete_bucket, lines 32-33
delete_bucket ==
    /\ pc = "idle"
    /\ \E bucket \in Buckets, wire \in Wire({""}, {EmptyDict}) :
          Finish([op |-> "delete_bucket", args |-> [bucket |-> bucket]],
                 _request(config, session, "DELETE", BucketPath(bucket), EmptyDict,
                          NoKwargs, wire),
                 Returned(None))
    /\ UNCHANGED store

(***************************************************************************)
(* operations.py: object operations without a body stream.                 *)
(***************************************************************************)
\* Operations.delete_object, lines 137-138. A server that carries the
\* request out forgets the object.
delete_object ==
    /\ pc = "idle"
    /\ \E bucket \in Buckets, key \in Keys, wire \in Wire({""}, {EmptyDict}) :
          LET r == _request(config, session, "DELETE", ObjectPath(bucket, key),
                            EmptyDict, NoKwargs, wire)
          IN  /\ Finish([op |-> "delete_object",
                         args |-> [bucket |-> bucket, key |-> key]],
                        r, Returned(None))
              /\ store' = IF Succeeded(r) THEN [store EXCEPT ![key] = None]
                          ELSE store

\* Operations.copy_object, lines 178-182. A server that carries the request
\* out stores the source object under the destination key.
copy_object ==
    /\ pc = "idle"
    /\ \E source_bucket \in Buckets, source_key \in Keys,
          dest_bucket \in Buckets, dest_key \in Keys,
          wire \in Wire({""}, {EmptyDict}) :
          LET headers == "X-Amz-Copy-Source" :>
                            ("/" \o source_bucket \o "/" \o source_key)
              r == _request(config, session, "PUT",
                            ObjectPath(dest_bucket, dest_key), headers,
                            NoKwargs, wire)
          IN  /\ Finish([op |-> "copy_object",
                         args |-> [source_bucket |-> source_bucket,
                                   source_key |-> source_key,
                                   dest_bucket |-> dest_bucket,
                                   dest_key |-> dest_key]],
                        r, Returned(None))
              /\ store' = IF Succeeded(r) /\ store[source_key] # None
                          THEN [store EXCEPT ![dest_key] = store[source_key]]
                          ELSE store

(***************************************************************************)
(* operations.py: the four multipart calls.                                *)
(***************************************************************************)
\* lines 65-70 and 194-199: Content-Type and one X-Amz-Meta-<k> per entry
UploadHeaders(content_type, metadata) ==
    [h \in {"Content-Type"} \cup {"X-Amz-Meta-" \o k : k \in DOMAIN metadata} |->
        IF h = "Content-Type" THEN content_type
        ELSE LET k == CHOOSE k \in DOMAIN metadata : h = "X-Amz-Meta-" \o k
             IN  metadata[k]]

\* models.py MultipartUpload
MultipartUpload(upload_id, bucket, key) ==
    [upload_id |-> upload_id, bucket |-> bucket, key |-> key]

\* lines 203-206: data = response.json(); data["uploadId"]
initiate_decode(resp, bucket, key) ==
    LET data == response_json(resp.text)
    IN  IF ~data.ok THEN Raised(OtherError("JSONDecodeError"))
        ELSE IF data.kind # "dict" THEN Raised(OtherError("TypeError"))
        ELSE IF "uploadId" \notin DOMAIN data.fields
             THEN Raised(OtherError("KeyError"))
        ELSE Returned(MultipartUpload(data.fields["uploadId"], bucket, key))

InitiateBodies == {"{\"uploadId\": \"u1\"}", "{}", ""}

\* Operations.initiate_multipart_upload, lines 192-206
initiate_multipart_upload ==
    /\ pc = "idle"
    /\ \E bucket \in Buckets, key \in Keys, content_type \in ContentTypes,
          metadata \in Metadatas, wire \in Wire(InitiateBodies, {EmptyDict}) :
          Finish([op |-> "initiate_multipart_upload",
                  args |-> [bucket |-> bucket, key |-> key,
                            content_type |-> content_type,
                            metadata |-> metadata]],
                 _request(config, session, "POST", ObjectPath(bucket, key),
                          UploadHeaders(content_type, metadata),
                          Kwargs("uploads" :> "", None, None, FALSE), wire),
                 initiate_decode(wire.resp, bucket, key))
    /\ UNCHANGED store

\* the ETag header values a server sends, as sequences of characters
EtagHeaders ==
    { EmptyDict,
      "ETag" :> <<"\"", "e", "1", "\"">>,
      "ETag" :> <<"e", "2">>,
      "ETag" :> <<"W", "/", "\"", "e", "1", "\"">> }

\* a faulty variant of upload_part_decode: the header is returned as it is
upload_part_decode_unstripped(resp) ==
    Returned(dict_get(resp.headers, "ETag", <<>>))

\* line 224: response.headers.get("ETag", "").strip('"')
upload_part_decode(resp) ==
    Returned(strip(dict_get(resp.headers, "ETag", <<>>), {"\""}))

\* a faulty variant of upload_part_params: the part number is left out
upload_part_params_without_number(upload_id, part_number) ==
    "uploadId" :> upload_id

\* line 220: params = {"uploadId": upload_id, "partNumber": part_number}
upload_part_params(upload_id, part_number) ==
    ("uploadId" :> upload_id) @@ ("partNumber" :> part_number)

\* Operations.upload_part, lines 218-224
upload_part ==
    /\ pc = "idle"
    /\ \E bucket \in Buckets, key \in Keys, upload_id \in UploadIds,
          part_number \in PartNumbers, data \in Datas,
          wire \in Wire({""}, EtagHeaders) :
          Finish([op |-> "upload_part",
                  args |-> [bucket |-> bucket, key |-> key,
                            upload_id |-> upload_id,
                            part_number |-> part_number, data |-> data,
                            size |-> Len(data)]],
                 _request(config, session, "PUT", ObjectPath(bucket, key),
                          EmptyDict,
                          Kwargs(upload_part_params(upload_id, part_number),
                                 None, Some(data), FALSE),
                          wire),
                 upload_part_decode(wire.resp))
    /\ UNCHANGED store

\* a faulty variant of parts_data: the parts are sent in ascending part-number order
RECURSIVE SortedParts(_)
SortedParts(parts) ==
    IF parts = <<>> THEN <<>>
    ELSE LET i == CHOOSE i \in 1..Len(parts) :
                     \A j \in 1..Len(parts) :
                        \/ parts[i].part_number < parts[j].part_number
                        \/ parts[i].part_number = parts[j].part_number /\ i <= j
         IN  <<parts[i]>> \o SortedParts(SubSeq(parts, 1, i - 1)
                                           \o SubSeq(parts, i + 1, Len(parts)))
parts_data_sorted(parts) ==
    [parts |-> [i \in 1..Len(parts) |->
                   [partNumber |-> SortedParts(parts)[i].part_number,
                    etag |-> SortedParts(parts)[i].etag]]]

\* line 235: {"parts": [{"partNumber": p.part_number, "etag": p.etag} for p in parts]}
parts_data(parts) ==
    [parts |-> [i \in 1..Len(parts) |->
                   [partNumber |-> parts[i].part_number, etag |-> parts[i].etag]]]

\* Operations.complete_multipart_upload, lines 230-237
complete_multipart_upload ==
    /\ pc = "idle"
    /\ \E bucket \in Buckets, key \in Keys, upload_id \in UploadIds,
          parts \in PartLists, wire \in Wire({""}, {EmptyDict}) :
          Finish([op |-> "complete_multipart_upload",
                  args |-> [bucket |-> bucket, key |-> key,
                            upload_id |-> upload_id, parts |-> parts]],
                 _request(config, session, "POST", ObjectPath(bucket, key),
                          EmptyDict,
                          Kwargs("uploadId" :> upload_id,
                                 Some(parts_data(parts)), None, FALSE),
                          wire),
                 Returned(None))
    /\ UNCHANGED store

\* Operations.abort_multipart_upload, lines 241-245
abort_multipart_upload ==
    /\ pc = "idle"
    /\ \E bucket \in Buckets, key \in Keys, upload_id \in UploadIds,
          wire \in Wire({""}, {EmptyDict}) :
          Finish([op |-> "abort_multipart_upload",
                  args |-> [bucket |-> bucket, key |-> key,
                            upload_id |-> upload_id]],
                 _request(config, session, "DELETE", ObjectPath(bucket, key),
                          EmptyDict,
                          Kwargs("uploadId" :> upload_id, None, None, FALSE),
                          wire),
                 Returned(None))
    /\ UNCHANGED store

(***************************************************************************)
(* operations.py: upload, with ProgressReader.                             *)
(***************************************************************************)
\* a faulty variant of ProgressReader_read: the callback gets the size of the chunk
ProgressReader_read_delta(reader, chunk) ==
    IF chunk # <<>>
    THEN [bytes_read |-> reader.bytes_read + Len(chunk),
          progress |-> Append(reader.progress, Len(chunk))]
    ELSE reader

\* a faulty variant of ProgressReader_read: the callback is invoked on every
\* read, the read at the end of the stream included
ProgressReader_read_always(reader, chunk) ==
    [bytes_read |-> reader.bytes_read + Len(chunk),
     progress |-> Append(reader.progress, reader.bytes_read + Len(chunk))]

\* ProgressReader.read, lines 259-263, for the chunk self.data.read(size)
\* returned: the reader's bytes_read and the callback values afterwards
ProgressReader_read(reader, chunk) ==
    IF chunk # <<>>
    THEN [bytes_read |-> reader.bytes_read + Len(chunk),
          progress |-> Append(reader.progress, reader.bytes_read + Len(chunk))]
    ELSE reader

\* Operations.upload, lines 63-76, up to the call of _request: the request
\* body is the caller's stream, wrapped in a ProgressReader (bytes_read = 0)
\* when a progress callback is given
upload_begin ==
    /\ pc = "idle"
    /\ \E bucket \in Buckets, key \in Keys, data \in Datas,
          content_type \in ContentTypes, metadata \in Metadatas,
          progress_callback \in BOOLEAN :
          \E size \in {Len(data), 0} :
             call' = [op |-> "upload",
                      args |-> [bucket |-> bucket, key |-> key, data |-> data,
                                size |-> size, content_type |-> content_type,
                                metadata |-> metadata,
                                progress_callback |-> progress_callback]]
             /\ stream' = data
    /\ pc' = "uploading"
    /\ bytes_read' = 0
    /\ UNCHANGED <<process, config, session, request, response, result, progress, writer,
                   sent, store>>

\* session.request reads the next chunk of the body (at most chunk_size
\* bytes, not empty before the end of the stream) and puts it on the wire:
\* through ProgressReader.read when the stream is wrapped, else directly
upload_read ==
    /\ pc = "uploading"
    /\ stream # <<>>
    /\ \E n \in 1..Min(chunk_size, Len(stream)) :
          LET chunk == SubSeq(stream, 1, n)
              reader == IF call.args.progress_callback
                        THEN ProgressReader_read(
                                 [bytes_read |-> bytes_read, progress |-> progress],
                                 chunk)
                        ELSE [bytes_read |-> bytes_read, progress |-> progress]
          IN  /\ stream' = SubSeq(stream, n + 1, Len(stream))
              /\ sent' = sent \o chunk
              /\ bytes_read' = reader.bytes_read
              /\ progress' = reader.progress
    /\ UNCHANGED <<process, config, session, pc, call, request, response, result, writer,
                   store>>

\* the read at the end of the stream returns b"" (lines 259-263, 271-273),
\* the server answers and _request returns or raises (line 76). A server
\* that carries the request out stores the body it received.
upload_end ==
    /\ pc = "uploading"
    /\ stream = <<>>
    /\ \E wire \in Wire({""}, {EmptyDict}) \ {TransportFailure} :
          LET a == call.args
              reader == IF a.progress_callback
                        THEN ProgressReader_read(
                                 [bytes_read |-> bytes_read, progress |-> progress],
                                 <<>>)
                        ELSE [bytes_read |-> bytes_read, progress |-> progress]
              r == _request(config, session, "PUT", ObjectPath(a.bucket, a.key),
                            UploadHeaders(a.content_type, a.metadata),
                            Kwargs(EmptyDict, None, Some(a.data), FALSE), wire)
          IN  /\ session' = r.session
              /\ request' = r.sent
              /\ response' = r.response
              /\ result' = IF r.exc # NoError THEN Raised(r.exc)
                           ELSE Returned(None)
              /\ bytes_read' = reader.bytes_read
              /\ progress' = reader.progress
              /\ store' = IF Succeeded(r) THEN [store EXCEPT ![a.key] = Some(sent)]
                          ELSE store
    /\ pc' = "done"
    /\ UNCHANGED <<process, config, call, stream, writer, sent>>

\* the connection breaks while the body is sent: session.request raises
upload_fail ==
    /\ pc = "uploading"
    /\ LET a == call.args
           r == _request(config, session, "PUT", ObjectPath(a.bucket, a.key),
                         UploadHeaders(a.content_type, a.metadata),
                         Kwargs(EmptyDict, None, Some(a.data), FALSE),
                         TransportFailure)
       IN  /\ session' = r.session
           /\ request' = r.sent
           /\ response' = r.response
           /\ result' = Raised(r.exc)
    /\ pc' = "done"
    /\ UNCHANGED <<process, config, call, stream, bytes_read, progress, writer,
                   sent, store>>

(***************************************************************************)
(* operations.py: download.                                                *)
(***************************************************************************)
\* the outcome of decoding one value: err names the exception raised
DecodeError(kind) == [err |-> kind, value |-> None]
Decoded(value) == [err |-> "", value |-> value]

\* int(s) of a header value
int(s) ==
    CASE s = "0" -> Decoded(0) [] s = "1" -> Decoded(1) [] s = "2" -> Decoded(2)
      [] OTHER -> DecodeError("ValueError")

\* the headers of the answer to a GET: no Content-Length, one that is not
\* the length of the body, one that is no number
DownloadHeaders ==
    {EmptyDict, "Content-Length" :> "0", "Content-Length" :> "abc"}

\* an error response whose body has bytes a download could write
ErrorResponseWithBody == Response(404, "Not Found", EmptyDict, <<0, 1>>)

\* what a server that holds the object answers to a GET: the whole object,
\* or its first byte for the range "bytes=0-0"
DownloadResponses(key, byte_range) ==
    IF store[key] = None THEN {}
    ELSE {Response(200, "", h, store[key][1]) : h \in DownloadHeaders}
         \cup IF byte_range = None THEN {}
              ELSE {Response(206, "", EmptyDict,
                             SubSeq(store[key][1], 1, Min(1, Len(store[key][1]))))}

\* Operations.download, lines 87-97: the request; the body is not read yet
download_begin ==
    /\ pc = "idle"
    /\ \E bucket \in Buckets, key \in Keys, byte_range \in ByteRanges,
          progress_callback \in BOOLEAN :
          \E wire \in {TransportFailure} \cup {Answer(r) : r \in ErrorResponses}
                      \cup {Answer(ErrorResponseWithBody)}
                      \cup {Answer(r) : r \in DownloadResponses(key, byte_range)} :
             LET headers == IF Truthy(byte_range) THEN "Range" :> byte_range[1]
                            ELSE EmptyDict
                 r == _request(config, session, "GET", ObjectPath(bucket, key),
                               headers, Kwargs(EmptyDict, None, None, TRUE), wire)
                 \* line 96: total_size = int(response.headers.get("Content-Length", 0))
                 total_size == int(dict_get(wire.resp.headers, "Content-Length", "0"))
                 exc == IF r.exc # NoError THEN r.exc
                        ELSE IF total_size.err # "" THEN OtherError(total_size.err)
                        ELSE NoError
             IN  /\ call' = [op |-> "download",
                             args |-> [bucket |-> bucket, key |-> key,
                                       byte_range |-> byte_range,
                                       progress_callback |-> progress_callback]]
                 /\ session' = r.session
                 /\ request' = r.sent
                 /\ response' = r.response
                 /\ result' = IF exc # NoError THEN Raised(exc) ELSE NoResult
                 /\ pc' = IF exc # NoError THEN "done" ELSE "downloading"
                 /\ stream' = IF exc # NoError THEN <<>> ELSE wire.resp.content
    /\ bytes_read' = 0
    /\ UNCHANGED <<process, config, progress, writer, sent, store>>

\* a faulty variant of download_chunk: the write is done only under a progress callback
download_chunk_write_under_callback(state, chunk, progress_callback) ==
    IF chunk # <<>>
    THEN [writer |-> IF progress_callback THEN state.writer \o chunk
                     ELSE state.writer,
          bytes_transferred |-> state.bytes_transferred + Len(chunk),
          progress |-> IF progress_callback
                       THEN Append(state.progress,
                                   state.bytes_transferred + Len(chunk))
                       ELSE state.progress]
    ELSE state

\* a faulty variant of download_chunk: the callback is invoked before the
\* chunk is written and counted
download_chunk_callback_before_write(state, chunk, progress_callback) ==
    IF chunk # <<>>
    THEN [writer |-> state.writer \o chunk,
          bytes_transferred |-> state.bytes_transferred + Len(chunk),
          progress |-> IF progress_callback
                       THEN Append(state.progress, state.bytes_transferred)
                       ELSE state.progress]
    ELSE state

\* one turn of the loop of lines 101-106 for the chunk iter_content yielded
download_chunk(state, chunk, progress_callback) ==
    IF chunk # <<>>
    THEN [writer |-> state.writer \o chunk,
          bytes_transferred |-> state.bytes_transferred + Len(chunk),
          progress |-> IF progress_callback
                       THEN Append(state.progress,
                                   state.bytes_transferred + Len(chunk))
                       ELSE state.progress]
    ELSE state

\* iter_content yields the next chunk: at most chunk_size bytes, possibly none
download_read ==
    /\ pc = "downloading"
    /\ \E n \in 0..Min(chunk_size, Len(stream)) :
          LET after == download_chunk(
                           [writer |-> writer, bytes_transferred |-> bytes_read,
                            progress |-> progress],
                           SubSeq(stream, 1, n), call.args.progress_callback)
          IN  /\ stream' = SubSeq(stream, n + 1, Len(stream))
              /\ writer' = after.writer
              /\ bytes_read' = after.bytes_transferred
              /\ progress' = after.progress
    /\ UNCHANGED <<process, config, session, pc, call, request, response, result, sent,
                   store>>

\* the body is exhausted: the loop ends and download returns None
download_end ==
    /\ pc = "downloading"
    /\ stream = <<>>
    /\ result' = Returned(None)
    /\ pc' = "done"
    /\ UNCHANGED <<process, config, session, call, request, response, stream, bytes_read,
                   progress, writer, sent, store>>

\* the connection breaks while the body is read: iter_content raises
download_fail ==
    /\ pc = "downloading"
    /\ stream # <<>>
    /\ result' = Raised(OtherError("requests.RequestException"))
    /\ pc' = "done"
    /\ UNCHANGED <<process, config, session, call, request, response, stream, bytes_read,
                   progress, writer, sent, store>>

(***************************************************************************)
(* Decoding of responses into the records of models.py.                    *)
(***************************************************************************)
\* the first exception a loop over decoded entries raises, if any
HasError(results) == \E i \in 1..Len(results) : results[i].err # ""
FirstError(results) ==
    LET i == CHOOSE i \in 1..Len(results) :
                /\ results[i].err # ""
                /\ \A j \in 1..(i - 1) : results[j].err = ""
    IN  results[i].err
Values(results) == [i \in 1..Len(results) |-> results[i].value]

\* datetime.fromisoformat(x.replace("Z", "+00:00")); x is a JSON value
replace_Z(s) ==
    IF s = "2024-01-15T10:30:00Z" THEN "2024-01-15T10:30:00+00:00" ELSE s
fromisoformat(x) ==
    IF x.t # "str" THEN DecodeError("AttributeError")
    ELSE IF replace_Z(x.v) = "2024-01-15T10:30:00+00:00"
         THEN Decoded([datetime |-> replace_Z(x.v)])
         ELSE DecodeError("ValueError")

\* datetime.now()
Now == [datetime |-> "now"]

\* whether a dict lacks one of the keys that are subscripted
Lacks(fields, names) == \E n \in names : n \notin DOMAIN fields

\* lines 42-48: one Bucket
bucket_decode(b) ==
    IF Lacks(b, {"name", "creationDate"}) THEN DecodeError("KeyError")
    ELSE LET creation_date == fromisoformat(b["creationDate"])
         IN  IF creation_date.err # "" THEN creation_date
             ELSE Decoded([name |-> b["name"],
                           creation_date |-> creation_date.value])

\* lines 40-50
list_buckets_decode(resp) ==
    LET data == response_json(resp.text)
        results == LET items == dict_get(data.fields, "buckets", JList(<<>>)).v
                   IN  [i \in 1..Len(items) |-> bucket_decode(items[i])]
    IN  IF ~data.ok THEN Raised(OtherError("JSONDecodeError"))
        ELSE IF data.kind # "dict" THEN Raised(OtherError("AttributeError"))
        ELSE IF HasError(results) THEN Raised(OtherError(FirstError(results)))
        ELSE Returned([buckets |-> Values(results)])

\* Operations.list_buckets, lines 37-50
list_buckets ==
    /\ pc = "idle"
    /\ \E wire \in Wire({BucketsBody, BucketsBodyNoDate, "{}", ""}, {EmptyDict}) :
          Finish([op |-> "list_buckets", args |-> EmptyDict],
                 _request(config, session, "GET", "/s3", EmptyDict, NoKwargs, wire),
                 list_buckets_decode(wire.resp))
    /\ UNCHANGED store

\* the headers a server answers a HEAD with
ObjectHeaders ==
    ("Content-Length" :> "2") @@ ("Content-Type" :> "text/plain")
    @@ ("ETag" :> <<"\"", "e", "1", "\"">>)
    @@ ("Last-Modified" :> "Mon, 15 Jan 2024 10:30:00 GMT")
    @@ ("X-Amz-Meta-version" :> "1.0.0")
MetadataHeaders ==
    { EmptyDict, ObjectHeaders,
      [ObjectHeaders EXCEPT !["Last-Modified"] = "2024-01-15T10:30:00Z"],
      ("x-amz-meta-version" :> "1.0.0") @@ ("X-AMZ-META-Build" :> "7")
      @@ ("X-Amz-Metadata" :> "none") }

\* datetime.strptime(s, "%a, %d %b %Y %H:%M:%S %Z")
strptime(s) ==
    IF s = "Mon, 15 Jan 2024 10:30:00 GMT" THEN Decoded([datetime |-> s])
    ELSE DecodeError("ValueError")

\* a faulty variant of metadata_key: the prefix is matched as it is spelled
metadata_key_case_sensitive(header_name) ==
    IF startswith(CharsOf[header_name], xamzmeta)
    THEN Some(Str(SubSeq(CharsOf[header_name], 12, Len(CharsOf[header_name]))))
    ELSE None

\* lines 116-117: the metadata key of a header named x-amz-meta-<key> in any
\* letter case (Optional)
metadata_key(header_name) ==
    IF startswith(lower(CharsOf[header_name]), xamzmeta)
    THEN Some(Str(SubSeq(CharsOf[header_name], 12, Len(CharsOf[header_name]))))
    ELSE None

\* models.py Object
Object(key, size, last_modified, etag, content_type, metadata) ==
    [key |-> key, size |-> size, last_modified |-> last_modified, etag |-> etag,
     content_type |-> content_type, metadata |-> metadata]

\* lines 114-133
get_object_metadata_decode(resp, key) ==
    LET names == {h \in DOMAIN resp.headers : metadata_key(h) # None}
        metadata == [k \in {metadata_key(h)[1] : h \in names} |->
                        resp.headers[CHOOSE h \in names : metadata_key(h)[1] = k]]
        size == int(dict_get(resp.headers, "Content-Length", "0"))
        last_modified_str == dict_get(resp.headers, "Last-Modified", "")
        last_modified == IF last_modified_str # "" THEN strptime(last_modified_str)
                         ELSE Decoded(Now)
    IN  IF size.err # "" THEN Raised(OtherError(size.err))
        ELSE IF last_modified.err # "" THEN Raised(OtherError(last_modified.err))
        ELSE Returned(Object(key, size.value, last_modified.value,
                             strip(dict_get(resp.headers, "ETag", <<>>), {"\""}),
                             dict_get(resp.headers, "Content-Type", ""),
                             metadata))

\* Operations.get_object_metadata, lines 110-133
get_object_metadata ==
    /\ pc = "idle"
    /\ \E bucket \in Buckets, key \in Keys, wire \in Wire({""}, MetadataHeaders) :
          Finish([op |-> "get_object_metadata",
                  args |-> [bucket |-> bucket, key |-> key]],
                 _request(config, session, "HEAD", ObjectPath(bucket, key),
                          EmptyDict, NoKwargs, wire),
                 get_object_metadata_decode(wire.resp, key))
    /\ UNCHANGED store

\* truthiness of a JSON value
JTruthy(x) ==
    CASE x.t = "null" -> FALSE
      [] x.t = "str" -> x.v # ""
      [] x.t = "num" -> x.v # 0
      [] x.t = "bool" -> x.v
      [] OTHER -> TRUE

\* lines 157-165: one Object of a listing
object_decode(obj) ==
    IF Lacks(obj, {"key"}) THEN DecodeError("KeyError")
    ELSE LET last_modified ==
                 IF JTruthy(dict_get(obj, "lastModified", JNull))
                 THEN fromisoformat(dict_get(obj, "lastModified", JStr("")))
                 ELSE Decoded(Now)
         IN  IF last_modified.err # "" THEN last_modified
             ELSE Decoded(Object(obj["key"], dict_get(obj, "size", JNum(0)),
                                 last_modified.value,
                                 dict_get(obj, "etag", JStr("")),
                                 dict_get(obj, "contentType", JStr("")),
                                 EmptyDict))

\* a faulty variant of list_objects_decode: an entry that cannot be decoded
\* is left out of the result
list_objects_decode_skipping(resp) ==
    LET data == response_json(resp.text)
        results == LET items == dict_get(data.fields, "contents", JList(<<>>)).v
                   IN  [i \in 1..Len(items) |-> object_decode(items[i])]
        good(r) == r.err = ""
    IN  IF ~data.ok THEN Raised(OtherError("JSONDecodeError"))
        ELSE IF data.kind # "dict" THEN Raised(OtherError("AttributeError"))
        ELSE Returned([objects |-> Values(SelectSeq(results, good)),
                       prefix |-> dict_get(data.fields, "prefix", JStr("")),
                       max_keys |-> dict_get(data.fields, "maxKeys", JNum(1000)),
                       is_truncated |->
                           dict_get(data.fields, "isTruncated", JBool(FALSE))])

\* lines 154-172
list_objects_decode(resp) ==
    LET data == response_json(resp.text)
        results == LET items == dict_get(data.fields, "contents", JList(<<>>)).v
                   IN  [i \in 1..Len(items) |-> object_decode(items[i])]
    IN  IF ~data.ok THEN Raised(OtherError("JSONDecodeError"))
        ELSE IF data.kind # "dict" THEN Raised(OtherError("AttributeError"))
        ELSE IF HasError(results) THEN Raised(OtherError(FirstError(results)))
        ELSE Returned([objects |-> Values(results),
                       prefix |-> dict_get(data.fields, "prefix", JStr("")),
                       max_keys |-> dict_get(data.fields, "maxKeys", JNum(1000)),
                       is_truncated |->
                           dict_get(data.fields, "isTruncated", JBool(FALSE))])

\* a faulty variant of list_objects_params: prefix is sent even when empty
list_objects_params_with_empty_prefix(prefix, max_keys) ==
    ("prefix" :> prefix)
    @@ (IF max_keys # 0 THEN "max-keys" :> max_keys ELSE EmptyDict)

\* lines 146-150: the query parameters
list_objects_params(prefix, max_keys) ==
    (IF prefix # "" THEN "prefix" :> prefix ELSE EmptyDict)
    @@ (IF max_keys # 0 THEN "max-keys" :> max_keys ELSE EmptyDict)

\* Operations.list_objects, lines 144-172
list_objects ==
    /\ pc = "idle"
    /\ \E bucket \in Buckets, prefix \in {"", "app/", "lib/"}, max_keys \in {0, 1000},
          wire \in Wire({ObjectsBody, ObjectsBodyKeyOnly, ObjectsBodyNoKey,
                         ObjectsBodyTwo, ObjectsBodyKeyThenNoKey,
                         ObjectsBodyMaxKeysZero, ObjectsBodyMaxKeysNegative,
                         "{}", ""},
                        {EmptyDict}) :
          Finish([op |-> "list_objects",
                  args |-> [bucket |-> bucket, prefix |-> prefix,
                            max_keys |-> max_keys]],
                 _request(config, session, "GET", BucketPath(bucket), EmptyDict,
                          Kwargs(list_objects_params(prefix, max_keys), None, None,
                                 FALSE),
                          wire),
                 list_objects_decode(wire.resp))
    /\ UNCHANGED store

(***************************************************************************)
(* supplychain.py                                                          *)
(***************************************************************************)
SupplyChainPath(operation, bucket, key) ==
    "/supplychain/" \o operation \o "/" \o bucket \o "/" \o key

\* a faulty variant of record_decode: a record without a timestamp gets the
\* current time
record_decode_with_fallback(data, names) ==
    IF Lacks(data, names) THEN DecodeError("KeyError")
    ELSE LET timestamp == IF "timestamp" \in DOMAIN data
                          THEN fromisoformat(data["timestamp"])
                          ELSE Decoded(Now)
         IN  IF timestamp.err # "" THEN timestamp
             ELSE Decoded([n \in names \cup {"timestamp"} |->
                              IF n = "timestamp" THEN timestamp.value
                              ELSE data[n]])

\* one record with a timestamp: the subscripted keys, then fromisoformat
record_decode(data, names) ==
    IF Lacks(data, names \cup {"timestamp"}) THEN DecodeError("KeyError")
    ELSE LET timestamp == fromisoformat(data["timestamp"])
         IN  IF timestamp.err # "" THEN timestamp
             ELSE Decoded([n \in names \cup {"timestamp"} |->
                              IF n = "timestamp" THEN timestamp.value
                              ELSE data[n]])

SignatureFields == {"id", "artifactDigest", "signature", "algorithm", "signedBy"}
SbomFields == {"id", "artifactDigest", "format", "content"}
AttestationFields == {"id", "artifactDigest", "type", "data"}

\* data = response.json(), then one record built from data
single_decode(resp, names) ==
    LET data == response_json(resp.text)
        decoded == record_decode(data.fields, names)
    IN  IF ~data.ok THEN Raised(OtherError("JSONDecodeError"))
        ELSE IF data.kind # "dict" THEN Raised(OtherError("TypeError"))
        ELSE IF decoded.err # "" THEN Raised(OtherError(decoded.err))
        ELSE Returned(decoded.value)

\* data = response.json(), then one record per entry of data.get(field, [])
listing_decode(resp, field, names) ==
    LET data == response_json(resp.text)
        results == LET items == dict_get(data.fields, field, JList(<<>>)).v
                   IN  [i \in 1..Len(items) |-> record_decode(items[i], names)]
    IN  IF ~data.ok THEN Raised(OtherError("JSONDecodeError"))
        ELSE IF data.kind # "dict" THEN Raised(OtherError("AttributeError"))
        ELSE IF HasError(results) THEN Raised(OtherError(FirstError(results)))
        ELSE Returned(Values(results))

JsonKwargs(payload) == Kwargs(EmptyDict, Some(payload), None, FALSE)

\* SupplyChain.sign_artifact, lines 20-34
sign_artifact ==
    /\ pc = "idle"
    /\ \E bucket \in Buckets, key \in Keys, private_key \in {"PEM"},
          wire \in Wire({SignatureBody, SignatureBodyNoTimestamp, ""}, {EmptyDict}) :
          Finish([op |-> "sign_artifact",
                  args |-> [bucket |-> bucket, key |-> key,
                            private_key |-> private_key]],
                 _request(config, session, "POST",
                          SupplyChainPath("sign", bucket, key), EmptyDict,
                          JsonKwargs([privateKey |-> private_key]), wire),
                 single_decode(wire.resp, SignatureFields))
    /\ UNCHANGED store

\* SupplyChain.get_signatures, lines 38-56
get_signatures ==
    /\ pc = "idle"
    /\ \E bucket \in Buckets, key \in Keys,
          wire \in Wire({SignaturesBody, SignaturesBodyNoTimestamp,
                         SignaturesBodyMixed, "{}"},
                        {EmptyDict}) :
          Finish([op |-> "get_signatures",
                  args |-> [bucket |-> bucket, key |-> key]],
                 _request(config, session, "GET",
                          SupplyChainPath("signatures", bucket, key), EmptyDict,
                          NoKwargs, wire),
                 listing_decode(wire.resp, "signatures", SignatureFields))
    /\ UNCHANGED store

\* lines 68-85: the signatures, then data["valid"] and data["message"]
verify_decode(resp) ==
    LET signatures == listing_decode(resp, "signatures", SignatureFields)
        data == response_json(resp.text)
    IN  IF signatures.state = "raised" THEN signatures
        ELSE IF Lacks(data.fields, {"valid", "message"})
             THEN Raised(OtherError("KeyError"))
        ELSE Returned([valid |-> data.fields["valid"],
                       message |-> data.fields["message"],
                       signatures |-> signatures.value])

\* SupplyChain.verify_signatures, lines 62-85
verify_signatures ==
    /\ pc = "idle"
    /\ \E bucket \in Buckets, key \in Keys, public_keys \in {<<>>, <<"PEM">>},
          wire \in Wire({VerifyBody, VerifyBodyNoMessage, VerifyBodyNoTimestamp, ""},
                        {EmptyDict}) :
          Finish([op |-> "verify_signatures",
                  args |-> [bucket |-> bucket, key |-> key,
                            public_keys |-> public_keys]],
                 _request(config, session, "POST",
                          SupplyChainPath("verify", bucket, key), EmptyDict,
                          JsonKwargs([publicKeys |-> public_keys]), wire),
                 verify_decode(wire.resp))
    /\ UNCHANGED store

\* SupplyChain.attach_sbom, lines 89-102
attach_sbom ==
    /\ pc = "idle"
    /\ \E bucket \in Buckets, key \in Keys, format \in {"spdx"}, content \in {"{}"},
          wire \in Wire({SbomBody, SbomBodyNoTimestamp, ""}, {EmptyDict}) :
          Finish([op |-> "attach_sbom",
                  args |-> [bucket |-> bucket, key |-> key, format |-> format,
                            content |-> content]],
                 _request(config, session, "POST",
                          SupplyChainPath("sbom", bucket, key), EmptyDict,
                          JsonKwargs([format |-> format, content |-> content]),
                          wire),
                 single_decode(wire.resp, SbomFields))
    /\ UNCHANGED store

\* SupplyChain.get_sbom, lines 106-117
get_sbom ==
    /\ pc = "idle"
    /\ \E bucket \in Buckets, key \in Keys,
          wire \in Wire({SbomBody, SbomBodyNoTimestamp, ""}, {EmptyDict}) :
          Finish([op |-> "get_sbom", args |-> [bucket |-> bucket, key |-> key]],
                 _request(config, session, "GET",
                          SupplyChainPath("sbom", bucket, key), EmptyDict,
                          NoKwargs, wire),
                 single_decode(wire.resp, SbomFields))
    /\ UNCHANGED store

\* SupplyChain.add_attestation, lines 123-136
add_attestation ==
    /\ pc = "idle"
    /\ \E bucket \in Buckets, key \in Keys, attestation_type \in {"build"},
          data \in {EmptyDict},
          wire \in Wire({AttestationBody, AttestationBodyBadTimestamp,
                         AttestationBodyNoTimestamp, "{}"},
                        {EmptyDict}) :
          Finish([op |-> "add_attestation",
                  args |-> [bucket |-> bucket, key |-> key,
                            attestation_type |-> attestation_type,
                            data |-> data]],
                 _request(config, session, "POST",
                          SupplyChainPath("attestations", bucket, key), EmptyDict,
                          JsonKwargs([type |-> attestation_type, data |-> data]),
                          wire),
                 single_decode(wire.resp, AttestationFields))
    /\ UNCHANGED store

\* SupplyChain.get_attestations, lines 140-157
get_attestations ==
    /\ pc = "idle"
    /\ \E bucket \in Buckets, key \in Keys,
          wire \in Wire({AttestationsBody, AttestationsBodyBadTimestamp,
                         AttestationsBodyMixed, "{}"},
                        {EmptyDict}) :
          Finish([op |-> "get_attestations",
                  args |-> [bucket |-> bucket, key |-> key]],
                 _request(config, session, "GET",
                          SupplyChainPath("attestations", bucket, key), EmptyDict,
                          NoKwargs, wire),
                 listing_decode(wire.resp, "attestations", AttestationFields))
    /\ UNCHANGED store

(***************************************************************************)
(* client.py: construction of Config and Client, and Client._url.          *)
(***************************************************************************)
ValueError(message) ==
    [kind |-> "ValueError", message |-> JStr(message), status_code |-> None]

\* a faulty variant of Config_init: the check of line 50 is left out
Config_init_without_check(base_url, token, timeout, insecure_skip_verify, user_agent) ==
    Returned(Config(base_url, token, timeout, insecure_skip_verify, user_agent))

\* Config.__init__, lines 50-57. base_url is a string or None: both the
\* empty string and None are falsy (and both are the empty sequence here)
Config_init(base_url, token, timeout, insecure_skip_verify, user_agent) ==
    IF base_url = <<>>
    THEN Raised(ValueError("base_url is required"))
    ELSE Returned(Config(base_url, token, timeout, insecure_skip_verify, user_agent))

\* the base URLs given to Config
BaseUrls ==
    { <<>>, <<"/">>, TestUrl, TestUrl \o <<"/">>, TestUrl \o <<"/", "/">>,
      TestUrl \o <<"/", "a">>, TestUrl \o <<"/", "a", "/">>,
      TestUrl \o <<"/", "a", "/", "b">> }

\* the paths the operations build, character by character
BucketNames == {<<"b", "1">>}
KeyNames == {<<"k", "1">>}
SupplyChainOperations ==
    {<<"s", "i", "g", "n">>,
     <<"s", "i", "g", "n", "a", "t", "u", "r", "e", "s">>,
     <<"v", "e", "r", "i", "f", "y">>, <<"s", "b", "o", "m">>,
     <<"a", "t", "t", "e", "s", "t", "a", "t", "i", "o", "n", "s">>}
PathNames ==
    {<<"/", "s", "3">>}
    \cup {<<"/", "s", "3", "/">> \o b : b \in BucketNames}
    \cup {<<"/", "s", "3", "/">> \o b \o <<"/">> \o k : b \in BucketNames, k \in KeyNames}
    \cup {<<"/", "s", "u", "p", "p", "l", "y", "c", "h", "a", "i", "n", "/">> \o op \o <<"/">> \o b \o <<"/">> \o k :
             op \in SupplyChainOperations, b \in BucketNames, k \in KeyNames}

\* the characters of a path given as a string
PathChars == [s \in {Str(p) : p \in PathNames} |->
                 CHOOSE p \in PathNames : Str(p) = s]

\* str.find("/") and str.rfind("/"), counted from 1 (0: not found)
find_slash(cs) ==
    IF \E i \in 1..Len(cs) : cs[i] = "/"
    THEN CHOOSE i \in 1..Len(cs) : cs[i] = "/" /\ \A j \in 1..(i - 1) : cs[j] # "/"
    ELSE 0
rfind_slash(cs) ==
    IF \E i \in 1..Len(cs) : cs[i] = "/"
    THEN CHOOSE i \in 1..Len(cs) : cs[i] = "/" /\ \A j \in (i + 1)..Len(cs) : cs[j] # "/"
    ELSE 0

\* urllib.parse.urljoin(base, url) for a base that is empty or an https URL
\* and a url that is a relative path (no scheme, no leading "/", no ".",
\* ".." or empty segment, no "?" or "#"): the url replaces the last segment
\* of the path of base
urljoin(base, url) ==
    IF base = <<>> THEN url
    ELSE IF url = <<>> THEN base
    ELSE LET rest == SubSeq(base, Len(Https) + 1, Len(base))
             netloc == IF find_slash(rest) = 0 THEN rest
                       ELSE SubSeq(rest, 1, find_slash(rest) - 1)
             path == IF find_slash(rest) = 0 THEN <<>>
                     ELSE SubSeq(rest, find_slash(rest), Len(rest))
             directory == SubSeq(path, 1, rfind_slash(path))
         IN  Https \o netloc
             \o (IF directory = <<>> THEN <<"/">> ELSE directory) \o url

\* Client._url, lines 110-112
_url(cfg, path) == urljoin(cfg.base_url, lstrip(PathChars[path], {"/"}))

\* no Config and no Client exist yet
NoConfig == [base_url |-> <<>>, token |-> None, timeout |-> 0,
             insecure_skip_verify |-> FALSE, user_agent |-> ""]
NoSession == [headers |-> EmptyDict, verify |-> TRUE]

InitClient ==
    /\ process = NewProcess
    /\ config = NoConfig
    /\ session = NoSession
    /\ pc = "new"
    /\ call = NoCall
    /\ request = <<>>
    /\ response = None
    /\ result = NoResult
    /\ stream = <<>>
    /\ bytes_read = 0
    /\ progress = <<>>
    /\ writer = <<>>
    /\ sent = <<>>
    /\ store = [k \in Keys |-> None]

\* Config(...) and, when that raised nothing, Client(config), client.py
\* lines 50-57 and 80-98, in a process that may have made clients before
Construct ==
    /\ pc \in {"new", "failed", "idle"}
    /\ \E base_url \in BaseUrls, token \in {None, Some("t0")},
          insecure_skip_verify \in BOOLEAN :
          LET r == Config_init(base_url, token, 60, insecure_skip_verify,
                               "astore-python/1.0.0")
          IN  /\ call' = [op |-> "Config", args |-> [base_url |-> base_url]]
              /\ result' = r
              /\ IF r.state = "returned"
                 THEN /\ config' = r.value
                      /\ session' = NewSession(r.value)
                      /\ process' = disable_warnings(process, r.value)
                      /\ pc' = "idle"
                 ELSE /\ config' = NoConfig
                      /\ session' = NoSession
                      /\ process' = process
                      /\ pc' = "failed"
    /\ UNCHANGED <<request, response, stream, bytes_read, progress, writer,
                   sent, store>>

\* the paths the operations hand to _url
OperationPaths ==
    {"/s3"} \cup {BucketPath(b) : b \in Buckets}
    \cup {ObjectPath(b, k) : b \in Buckets, k \in Keys}
    \cup {SupplyChainPath(op, b, k) :
             op \in {"sign", "signatures", "verify", "sbom", "attestations"},
             b \in Buckets, k \in Keys}

\* a call of Client._url (lines 110-112) by an operation
BuildUrl ==
    /\ pc = "idle"
    /\ \E path \in OperationPaths :
          /\ call' = [op |-> "_url", args |-> [path |-> path]]
          /\ result' = Returned(_url(config, path))
    /\ pc' = "done"
    /\ UNCHANGED <<process, config, session, request, response, stream,
                   bytes_read, progress, writer, sent, store>>

Next ==
    \/ Return
    \/ RequestWithHeaders
    \/ \E token \in Tokens : set_token(token)
    \/ create_bucket
    \/ delete_bucket
    \/ upload_begin
    \/ upload_read
    \/ upload_end
    \/ upload_fail
    \/ download_begin
    \/ download_read
    \/ download_end
    \/ download_fail
    \/ list_buckets
    \/ get_object_metadata
    \/ list_objects
    \/ delete_object
    \/ copy_object
    \/ sign_artifact
    \/ get_signatures
    \/ verify_signatures
    \/ attach_sbom
    \/ get_sbom
    \/ add_attestation
    \/ get_attestations
    \/ initiate_multipart_upload
    \/ upload_part
    \/ complete_multipart_upload
    \/ abort_multipart_upload

Spec == Init /\ [][Next]_vars

\* the error mapper: direct calls of _request over every status code, and
\* an operation that goes through it
NextErrors ==
    \/ Return
    \/ Request
    \/ create_bucket

SpecErrors == Init /\ [][NextErrors]_vars

(***************************************************************************)
(* Properties of the error mapper.                                         *)
(***************************************************************************)
\* the call has ended on a response with status >= 400
StatusError == pc = "done" /\ response # None /\ response[1].status_code >= 400

MappedStatuses == {400, 401, 403, 404, 409, 500, 503}

KindOfStatus(st) ==
    CASE st = 400 -> "BadRequestError"
      [] st = 401 -> "UnauthorizedError"
      [] st = 403 -> "ForbiddenError"
      [] st = 404 -> "NotFoundError"
      [] st = 409 -> "ConflictError"
      [] st = 500 -> "InternalServerError"
      [] st = 503 -> "ServiceUnavailableError"
      [] OTHER -> "ArtifactStoreError"

\* the `error` field of a body that is a JSON object with one (Optional)
ErrorField(text) ==
    CASE text = "{\"error\": \"Bucket already exists\"}" ->
              Some(JStr("Bucket already exists"))
      [] text = "{\"error\": \"Artifact not found\"}" ->
              Some(JStr("Artifact not found"))
      [] text = "{\"error\": null}" -> Some(JNull)
      [] text = "{\"error\": 42}" -> Some(JNum(42))
      [] OTHER -> None

\* C1: a response with one of the seven mapped statuses and the body
\* {"error": msg} makes the call raise the error kind of that status, with
\* message msg; the seven kinds are pairwise distinct.
C1_MappedStatusRaisesItsKind ==
    /\ \A s1, s2 \in MappedStatuses :
          s1 # s2 => error_class(s1, JNull).kind # error_class(s2, JNull).kind
    /\ (StatusError /\ response[1].status_code \in MappedStatuses
           /\ ErrorField(response[1].text) # None)
       => /\ result.state = "raised"
          /\ result.exc.kind = KindOfStatus(response[1].status_code)
          /\ result.exc.message = ErrorField(response[1].text)[1]

\* create_bucket on a 409 with error "Bucket already exists" has raised
\* ConflictError with that message
C1_Witness ==
    /\ pc = "done"
    /\ call.op = "create_bucket"
    /\ response # None
    /\ response[1].status_code = 409
    /\ response[1].text = "{\"error\": \"Bucket already exists\"}"
    /\ result.exc.kind = "ConflictError"
    /\ result.exc.message = JStr("Bucket already exists")

\* the message the chain of section 4.2 resolves for a body and a status
ResolvedMessage(text, st) ==
    IF ErrorField(text) # None THEN ErrorField(text)[1]
    ELSE IF text # "" THEN JStr(text)
    ELSE JStr("HTTP " \o IntToStr(st))

\* C2 (as claimed): every error raised for a status >= 400 carries the
\* resolved message and a status_code equal to the status of the response.
C2_EveryErrorCarriesStatusCode ==
    StatusError
    => /\ result.state = "raised"
       /\ result.exc.message
             = ResolvedMessage(response[1].text, response[1].status_code)
       /\ result.exc.status_code = Some(response[1].status_code)

\* C3 (as claimed): an unmapped status >= 400 raises the generic kind whose
\* message is the raw body text, or "HTTP <code>" when the body is empty.
C3_UnmappedMessageIsRawBody ==
    (StatusError /\ response[1].status_code \notin MappedStatuses)
    => /\ result.state = "raised"
       /\ result.exc.kind = "ArtifactStoreError"
       /\ result.exc.message
             = IF response[1].text # "" THEN JStr(response[1].text)
               ELSE JStr("HTTP " \o IntToStr(response[1].status_code))

\* C3 (amended): an unmapped status >= 400 raises the generic kind whose
\* message is the `error` field of a body that is a JSON object with one,
\* otherwise the raw body text, or "HTTP <code>" when the body is empty.
C3_UnmappedRaisesGeneric ==
    (StatusError /\ response[1].status_code \notin MappedStatuses)
    => /\ result.state = "raised"
       /\ result.exc.kind = "ArtifactStoreError"
       /\ result.exc.message
             = ResolvedMessage(response[1].text, response[1].status_code)

\* a 418 with a JSON error body has raised the generic kind, whose message
\* is the error field
C3_Witness ==
    /\ StatusError
    /\ response[1].status_code = 418
    /\ result.exc.kind = "ArtifactStoreError"
    /\ response[1].text = "{\"error\": \"Artifact not found\"}"
    /\ result.exc.message = JStr("Artifact not found")

\* C4 (as claimed): the message of a status >= 400 is the `error` field of
\* a JSON object body, else the raw body text, else "HTTP <code>", and it
\* is a string in every case.
C4_MessageChainYieldsString ==
    StatusError
    => /\ result.state = "raised"
       /\ result.exc.message
             = ResolvedMessage(response[1].text, response[1].status_code)
       /\ result.exc.message.t = "str"

\* C5: a response with a status below 400 raises nothing, and _request
\* returns that response to its caller.
C5_BelowFourHundredNeverRaises ==
    (pc = "done" /\ response # None /\ response[1].status_code < 400)
    => /\ result.state = "returned"
       /\ call.op = "_request" => result.value = response

\* a 3xx response was returned by _request
C5_Witness ==
    /\ pc = "done"
    /\ call.op = "_request"
    /\ response # None
    /\ response[1].status_code = 399
    /\ result = Returned(response)

(***************************************************************************)
(* Properties of the transfers.                                            *)
(***************************************************************************)
\* C6: round trip against a server that stores what it receives. An upload
\* of the byte sequence b that returned has left exactly b on the server,
\* and a download (no byte range) that returned has left exactly the
\* server's object in the writer, with or without a progress callback.
C6_RoundTrip ==
    /\ (pc = "done" /\ call.op = "upload" /\ result.state = "returned")
       => store[call.args.key] = Some(call.args.data)
    /\ (pc = "done" /\ call.op = "download" /\ result.state = "returned"
           /\ call.args.byte_range = None)
       => Some(writer) = store[call.args.key]

\* a download with a progress callback has returned the two bytes <<0, 1>>
\* that an upload had stored
C6_Witness ==
    /\ pc = "done"
    /\ call.op = "download"
    /\ call.args.byte_range = None
    /\ call.args.progress_callback
    /\ result.state = "returned"
    /\ store[call.args.key] = Some(<<0, 1>>)
    /\ writer = <<0, 1>>

\* the bytes the transfer in progress (or just ended) has moved so far
Transferred ==
    IF call.op = "upload" THEN Len(sent)
    ELSE IF call.op = "download" THEN Len(writer)
    ELSE 0

\* C7: the values given to the progress callback of an upload or download
\* never decrease, each is the cumulative count of the bytes transferred
\* when it is given, and when the transfer of n bytes has returned the
\* last one is n.
C7_ProgressIsCumulative ==
    (call.op \in {"upload", "download"} /\ call.args.progress_callback)
    => /\ \A i, j \in 1..Len(progress) : i <= j => progress[i] <= progress[j]
       /\ progress # <<>> => progress[Len(progress)] = Transferred
       /\ Transferred > 0 => progress # <<>>
       /\ (pc = "done" /\ result.state = "returned" /\ call.op = "upload"
              /\ Len(call.args.data) > 0)
          => progress[Len(progress)] = Len(call.args.data)
       /\ (pc = "done" /\ result.state = "returned" /\ call.op = "download"
              /\ Len(response[1].content) > 0)
          => progress[Len(progress)] = Len(response[1].content)

\* an upload of two bytes in two chunks has returned after the callback
\* values 1, 2
C7_Witness ==
    /\ pc = "done"
    /\ call.op = "upload"
    /\ call.args.progress_callback
    /\ result.state = "returned"
    /\ Len(call.args.data) = 2
    /\ progress = <<1, 2>>

(***************************************************************************)
(* Properties of the multipart calls.                                      *)
(***************************************************************************)
\* C8: complete_multipart_upload sends the JSON body {parts: [...]} whose
\* i-th entry is {partNumber, etag} of the i-th part given, same length and
\* order, whatever the part numbers are.
C8_PartsSentInCallerOrder ==
    (pc = "done" /\ call.op = "complete_multipart_upload")
    => /\ Len(request) = 1
       /\ request[1].method = "POST"
       /\ request[1].json # None
       /\ DOMAIN request[1].json[1] = {"parts"}
       /\ LET sent_parts == request[1].json[1].parts
              parts == call.args.parts
          IN  /\ Len(sent_parts) = Len(parts)
              /\ \A i \in 1..Len(parts) :
                    /\ DOMAIN sent_parts[i] = {"partNumber", "etag"}
                    /\ sent_parts[i].partNumber = parts[i].part_number
                    /\ sent_parts[i].etag = parts[i].etag

\* a completion with the parts 2, 1 (unsorted) has sent them as given
C8_Witness ==
    /\ pc = "done"
    /\ call.op = "complete_multipart_upload"
    /\ call.args.parts = <<CompletedPart(2, "e2"), CompletedPart(1, "e1")>>
    /\ Len(request) = 1
    /\ request[1].json[1].parts
          = <<[partNumber |-> 2, etag |-> "e2"], [partNumber |-> 1, etag |-> "e1"]>>

MultipartOps ==
    {"initiate_multipart_upload", "upload_part", "complete_multipart_upload",
     "abort_multipart_upload"}

\* every multipart call that has ended has issued its request with the
\* arguments of the caller
MultipartRequestIssued ==
    (pc = "done" /\ call.op \in MultipartOps)
    => /\ Len(request) = 1
       /\ request[1].path = "/s3/" \o call.args.bucket \o "/" \o call.args.key
       /\ call.op = "initiate_multipart_upload"
          => /\ request[1].method = "POST"
             /\ request[1].params = ("uploads" :> "")
       /\ call.op = "upload_part"
          => /\ request[1].method = "PUT"
             /\ DOMAIN request[1].params = {"uploadId", "partNumber"}
             /\ request[1].params["uploadId"] = call.args.upload_id
             /\ request[1].params["partNumber"] = call.args.part_number
             /\ request[1].data = Some(call.args.data)
       /\ call.op = "complete_multipart_upload"
          => /\ request[1].method = "POST"
             /\ request[1].params = ("uploadId" :> call.args.upload_id)
       /\ call.op = "abort_multipart_upload"
          => /\ request[1].method = "DELETE"
             /\ request[1].params = ("uploadId" :> call.args.upload_id)
       \* a failure comes only from the answer to the request
       /\ (result.state = "raised" /\ response # None
              /\ response[1].status_code >= 400)
          => result.exc = raise_for_status(response[1])

\* C9: the SDK enforces no ordering on the four multipart calls. Whenever
\* the client is free to make a call each of the four can be made; each
\* issues its request with the caller's arguments; and none of them changes
\* the client (config and session are all the state the client keeps).
C9_NoOrderingOfMultipartCalls ==
    /\ [](pc = "idle" => /\ ENABLED initiate_multipart_upload
                         /\ ENABLED upload_part
                         /\ ENABLED complete_multipart_upload
                         /\ ENABLED abort_multipart_upload)
    /\ []MultipartRequestIssued
    /\ [][call'.op \in MultipartOps => UNCHANGED <<config, session>>]_vars

\* upload_part has issued its request for the upload id "u2", which no
\* initiate_multipart_upload has returned (the server issues "u1" only)
C9_Witness ==
    /\ pc = "done"
    /\ call.op = "upload_part"
    /\ call.args.upload_id = "u2"
    /\ Len(request) = 1
    /\ request[1].params["uploadId"] = "u2"

(***************************************************************************)
(* Properties of the number of requests a call makes.                      *)
(***************************************************************************)
\* C10: every public operation hands exactly one request to session.request
\* per call, whatever the outcome. A call that has received its answer or
\* has ended has made one request; the request made is never followed by
\* another one before the caller takes the result; and a call that ended on
\* a transport failure or on a status >= 400 has raised that error.
C10_ExactlyOneRequestPerCall ==
    /\ [](pc \in {"done", "downloading"} => Len(request) = 1)
    /\ [](pc = "uploading" => request = <<>>)
    /\ [][request # <<>> => (request' = request \/ (request' = <<>> /\ pc' = "idle"))]_vars
    /\ [](pc = "done" /\ response = None
             => result = Raised(OtherError("requests.RequestException")))
    /\ [](StatusError => result = Raised(raise_for_status(response[1])))

\* list_objects has ended on a decode failure (an entry of the listing has
\* no key) after its one request, which the server answered 200
C10_Witness ==
    /\ pc = "done"
    /\ call.op = "list_objects"
    /\ response # None
    /\ response[1].status_code = 200
    /\ result = Raised(OtherError("KeyError"))
    /\ Len(request) = 1

(***************************************************************************)
(* Properties of the error kinds.                                          *)
(***************************************************************************)
\* the kinds raise_for_status can raise
StatusMappedKinds == {error_class(st, JNull).kind : st \in AllStatuses}

DecodeFailure ==
    /\ pc = "done"
    /\ response # None
    /\ response[1].status_code < 400
    /\ result.state = "raised"
    /\ call.op # "download"

\* the kind a body that is not JSON makes initiate_multipart_upload raise
MalformedJsonKind ==
    initiate_decode(Response(200, "", EmptyDict, <<>>), "b1", "k1").exc.kind

\* C12 (as claimed): every decode failure surfaces as one and the same
\* kind, whatever the operation and whatever is wrong with the body (not
\* JSON, a required field missing), and that kind is neither the transport
\* kind nor a kind raise_for_status raises.
C12_DecodeFailureIsOneKind ==
    DecodeFailure
    => /\ result.exc.kind = MalformedJsonKind
       /\ result.exc.kind \notin StatusMappedKinds
       /\ result.exc.kind # "requests.RequestException"

(***************************************************************************)
(* Properties of the metadata headers.                                     *)
(***************************************************************************)
\* the answer of a server that sends the headers of a request back
EchoResponse(req) == Response(200, "", req.headers, <<>>)

\* upload has sent one header X-Amz-Meta-<k>: <v> per entry (k, v) of the
\* metadata given, and no other X-Amz-Meta- header
MetadataHeadersSent ==
    LET m == call.args.metadata
        sent_headers == request[1].headers
    IN  /\ \A k \in DOMAIN m :
              /\ ("X-Amz-Meta-" \o k) \in DOMAIN sent_headers
              /\ sent_headers["X-Amz-Meta-" \o k] = m[k]
        /\ \A h \in DOMAIN sent_headers :
              metadata_key(h) # None => metadata_key(h)[1] \in DOMAIN m

\* get_object_metadata on the echo of what upload sent returns the metadata
\* that was given to upload
MetadataEchoed ==
    get_object_metadata_decode(EchoResponse(request[1]), call.args.key)
        .value.metadata = call.args.metadata

\* get_object_metadata has returned one metadata entry per response header
\* named x-amz-meta-<key> in any letter case: <key> (the name without its
\* first 11 characters) with the header's value, and no other entry
MetadataDecoded ==
    LET headers == response[1].headers
        metadata == result.value.metadata
        prefixed == {h \in DOMAIN headers :
                        startswith(lower(CharsOf[h]), xamzmeta)}
        key_name(h) == Str(SubSeq(CharsOf[h], 12, Len(CharsOf[h])))
    IN  /\ \A h \in prefixed : /\ key_name(h) \in DOMAIN metadata
                               /\ metadata[key_name(h)] = headers[h]
        /\ DOMAIN metadata = {key_name(h) : h \in prefixed}

\* no two keys of the mapping are the same ignoring letter case
CaseDistinctKeys(m) ==
    \A j, k \in DOMAIN m :
        j # k => LowerOf["X-Amz-Meta-" \o j] # LowerOf["X-Amz-Meta-" \o k]

BodyPrefix(text) == IF text = ObjectsBody THEN JStr("app/") ELSE JStr("")

\* C14: list_objects issues GET /s3/{bucket} whose query has prefix=<prefix>
\* exactly when prefix is not empty and max-keys=<max_keys> exactly when
\* max_keys is not zero; the prefix of the result is the `prefix` field of
\* the response body ("" when the body has none), not the argument.
C14_ListObjectsQueryAndPrefix ==
    (pc = "done" /\ call.op = "list_objects")
    => /\ Len(request) = 1
       /\ request[1].method = "GET"
       /\ request[1].path = "/s3/" \o call.args.bucket
       /\ DOMAIN request[1].params \subseteq {"prefix", "max-keys"}
       /\ "prefix" \in DOMAIN request[1].params <=> call.args.prefix # ""
       /\ call.args.prefix # "" => request[1].params["prefix"] = call.args.prefix
       /\ "max-keys" \in DOMAIN request[1].params <=> call.args.max_keys # 0
       /\ call.args.max_keys # 0
          => request[1].params["max-keys"] = call.args.max_keys
       /\ result.state = "returned"
          => result.value.prefix = BodyPrefix(response[1].text)

\* list_objects with the default arguments (no prefix, max_keys 1000) has
\* sent max-keys=1000 only and returned the prefix "app/" of the body
C14_Witness ==
    /\ pc = "done"
    /\ call.op = "list_objects"
    /\ call.args.prefix = ""
    /\ call.args.max_keys = 1000
    /\ request[1].params = ("max-keys" :> 1000)
    /\ result.state = "returned"
    /\ result.value.prefix = JStr("app/")

\* the tokens given to set_token
ClientTokens == {"t0", "t1", ""}

NextClient ==
    \/ Construct
    \/ BuildUrl
    \/ \E token \in ClientTokens : set_token(token)
    \/ create_bucket
    \/ copy_object
    \/ Return

\* the construction of clients and the URLs they build
SpecClient == InitClient /\ [][NextClient]_vars


(***************************************************************************)
(* C15: for every non-empty base URL given to Config, the stored base_url  *)
(* has no trailing slash and is otherwise the given string (the given      *)
(* string is the stored one followed by slashes only), so no URL that      *)
(* _url builds has "//" after the scheme's.                                *)
(***************************************************************************)
C15_BaseUrlHasNoTrailingSlash ==
    /\ (pc = "idle" /\ call.op = "Config" /\ call.args.base_url # <<>>) =>
          LET given == call.args.base_url
              stored == config.base_url
          IN  /\ result.state = "returned"
              /\ result.value.base_url = stored
              /\ stored = <<>> \/ stored[Len(stored)] # "/"
              /\ Len(stored) <= Len(given)
              /\ SubSeq(given, 1, Len(stored)) = stored
              /\ \A i \in (Len(stored) + 1)..Len(given) : given[i] = "/"
    /\ (pc = "done" /\ call.op = "_url") =>
          \A i \in (Len(Https) + 1)..(Len(result.value) - 1) :
             ~(result.value[i] = "/" /\ result.value[i + 1] = "/")

\* C15 witness: "https://test.example.com/" was given and
\* "https://test.example.com" is stored
C15_Witness ==
    /\ pc = "idle"
    /\ call.op = "Config"
    /\ call.args.base_url = TestUrl \o <<"/">>
    /\ config.base_url = TestUrl

(***************************************************************************)
(* C16: for every configured base URL and every path p an operation        *)
(* builds, _url(p) is the configured base_url followed by p. Violated:     *)
(* urljoin replaces the last segment of the path of the base URL.          *)
(***************************************************************************)
C16_UrlIsBaseUrlFollowedByPath ==
    (pc = "done" /\ call.op = "_url" /\ config.base_url # <<>>) =>
       result.value = config.base_url \o PathChars[call.args.path]

(***************************************************************************)
(* C18: Config with an empty or missing base_url raises ValueError         *)
(* "base_url is required" and makes no Config, and no client and no        *)
(* request exists without a non-empty base URL. Violated: Config("/")      *)
(* passes the check and stores the empty base_url.                         *)
(***************************************************************************)
C18_NoClientWithoutBaseUrl ==
    /\ (call.op = "Config" /\ call.args.base_url = <<>>) =>
          /\ pc = "failed"
          /\ result = Raised(ValueError("base_url is required"))
          /\ config = NoConfig
    /\ pc \in {"idle", "done", "token_set"} => config.base_url # <<>>
    /\ request # <<>> => config.base_url # <<>>

(***************************************************************************)
(* C19: constructing a client with insecure_skip_verify disables TLS       *)
(* verification for that client's session only and changes no process-wide *)
(* state. Violated: Client.__init__ turns the InsecureRequestWarning off   *)
(* for the whole process.                                                  *)
(***************************************************************************)
C19_InsecureSkipVerifyIsPerClient ==
    /\ pc \in {"idle", "done", "token_set"} =>
          session.verify = ~config.insecure_skip_verify
    /\ process = NewProcess

(***************************************************************************)
(* C17: after set_token(t), config.token is t and the session's            *)
(* Authorization header is "Bearer t"; every request made while a token is *)
(* configured carries "Bearer " and that token; and only set_token (or the *)
(* construction of a new client) changes the token or the header, so the   *)
(* last set_token before a request determines the token it carries.        *)
(***************************************************************************)
C17_LastSetTokenDeterminesAuthorization ==
    /\ [](pc = "token_set" =>
             /\ call.op = "set_token"
             /\ config.token = Some(call.args.token)
             /\ "Authorization" \in DOMAIN session.headers
             /\ session.headers["Authorization"] = "Bearer " \o call.args.token)
    /\ [](\A i \in 1..Len(request) :
             config.token # None =>
                /\ "Authorization" \in DOMAIN request[i].headers
                /\ request[i].headers["Authorization"] = "Bearer " \o config.token[1])
    /\ [][(config'.token # config.token \/ session'.headers # session.headers)
             => call'.op \in {"set_token", "Config"}]_vars

\* C17 witness: a request carries "Bearer t1", a token that only set_token
\* gives (clients are constructed with "t0" or with no token)
C17_Witness ==
    /\ pc = "done"
    /\ call.op \in {"create_bucket", "copy_object"}
    /\ request # <<>>
    /\ "Authorization" \in DOMAIN request[1].headers
    /\ request[1].headers["Authorization"] = "Bearer t1"

(***************************************************************************)
(* C20: get_object_metadata answered with a status below 400 returns an    *)
(* Object whose last_modified is the current time both when the            *)
(* Last-Modified header is absent and when it is present but not an        *)
(* RFC-1123 date, with size, etag and content_type taken from the          *)
(* headers. Violated: an unparseable Last-Modified makes strptime raise    *)
(* ValueError, which get_object_metadata does not catch.                   *)
(***************************************************************************)
C20_LastModifiedFallsBackToNow ==
    (/\ pc = "done"
     /\ call.op = "get_object_metadata"
     /\ response # None
     /\ response[1].status_code < 400
     /\ \/ "Last-Modified" \notin DOMAIN response[1].headers
        \/ strptime(response[1].headers["Last-Modified"]).err # "")
    => /\ result.state = "returned"
       /\ result.value.last_modified = Now
       /\ result.value.size = int(dict_get(response[1].headers, "Content-Length", "0")).value
       /\ result.value.etag = strip(dict_get(response[1].headers, "ETag", <<>>), {"\""})
       /\ result.value.content_type = dict_get(response[1].headers, "Content-Type", "")

(***************************************************************************)
(* Properties of the decoding of listings and records.                     *)
(***************************************************************************)
\* the entries of `contents` in the body of the response at hand
ContentsOfResponse ==
    dict_get(response_json(response[1].text).fields, "contents", JList(<<>>)).v

\* C21: list_objects answered with a JSON object decodes every entry of
\* `contents` into one Object, in response order: an entry without
\* lastModified gets the current time, absent size, etag and contentType
\* are 0, "" and "", and an entry without key makes the whole call raise
\* with no result.
C21_ListObjectsDecodesEveryEntry ==
    (/\ pc = "done"
     /\ call.op = "list_objects"
     /\ response # None
     /\ response[1].status_code < 400
     /\ response_json(response[1].text).ok
     /\ response_json(response[1].text).kind = "dict")
    => LET items == ContentsOfResponse
       IN  IF \E i \in 1..Len(items) : "key" \notin DOMAIN items[i]
           THEN result.state = "raised" /\ result.value = None
           ELSE /\ result.state = "returned"
                /\ Len(result.value.objects) = Len(items)
                /\ \A i \in 1..Len(items) :
                      LET o == result.value.objects[i]
                      IN  /\ o.key = items[i].key
                          /\ "lastModified" \notin DOMAIN items[i]
                                => o.last_modified = Now
                          /\ "lastModified" \in DOMAIN items[i]
                                => o.last_modified # Now
                          /\ o.size = IF "size" \in DOMAIN items[i]
                                      THEN items[i].size ELSE JNum(0)
                          /\ o.etag = IF "etag" \in DOMAIN items[i]
                                      THEN items[i].etag ELSE JStr("")
                          /\ o.content_type = IF "contentType" \in DOMAIN items[i]
                                              THEN items[i].contentType ELSE JStr("")

\* C21 witness: a listing of two entries, the second with a key only, has
\* returned two Objects in that order, the second with the current time
C21_Witness ==
    /\ pc = "done"
    /\ call.op = "list_objects"
    /\ result.state = "returned"
    /\ Len(result.value.objects) = 2
    /\ result.value.objects[1].key = JStr("k1")
    /\ result.value.objects[2].key = JStr("k2")
    /\ result.value.objects[2].last_modified = Now
    /\ result.value.objects[2].size = JNum(0)

\* the supply-chain operations that decode one record, and those that
\* decode a list of records
SingleRecordCalls == {"sign_artifact", "attach_sbom", "get_sbom", "add_attestation"}
RecordListCalls == {"get_signatures", "verify_signatures", "get_attestations"}

\* the records in the body of the response at hand, and the records returned
RecordsOfResponse ==
    LET data == response_json(response[1].text).fields
    IN  IF call.op \in SingleRecordCalls THEN <<data>>
        ELSE IF call.op = "get_attestations"
             THEN dict_get(data, "attestations", JList(<<>>)).v
             ELSE dict_get(data, "signatures", JList(<<>>)).v
RecordsReturned ==
    IF call.op \in SingleRecordCalls THEN <<result.value>>
    ELSE IF call.op = "verify_signatures" THEN result.value.signatures
    ELSE result.value

\* C22: for every supply-chain operation, a record of the response without
\* `timestamp` makes the call raise (a KeyError) with no result, also when
\* other entries of a list have one; every record returned carries the
\* timestamp decoded from the response, never the current time.
C22_MissingTimestampFailsTheCall ==
    (/\ pc = "done"
     /\ call.op \in SingleRecordCalls \cup RecordListCalls
     /\ response # None
     /\ response[1].status_code < 400
     /\ response_json(response[1].text).ok
     /\ response_json(response[1].text).kind = "dict")
    => /\ (\E i \in 1..Len(RecordsOfResponse) :
              "timestamp" \notin DOMAIN RecordsOfResponse[i])
          => /\ result.state = "raised"
             /\ result.value = None
             /\ result.exc.kind = "KeyError"
             /\ result.exc.status_code = None
       /\ result.state = "returned"
          => /\ Len(RecordsReturned) = Len(RecordsOfResponse)
             /\ \A i \in 1..Len(RecordsReturned) :
                   /\ RecordsReturned[i].timestamp # Now
                   /\ RecordsReturned[i].timestamp =
                         fromisoformat(RecordsOfResponse[i].timestamp).value

\* C22 witness: get_signatures answered with a signature that has a
\* timestamp followed by one that has none has raised
C22_Witness ==
    /\ pc = "done"
    /\ call.op = "get_signatures"
    /\ response # None
    /\ response[1].status_code < 400
    /\ response[1].text = SignaturesBodyMixed
    /\ result.state = "raised"

(***************************************************************************)
(* Properties of the headers of requests.                                  *)
(***************************************************************************)
\* the headers the call at hand passes to _request, as the source builds
\* them (none for the operations that pass no headers)
PerCallHeaders ==
    CASE call.op = "_request" -> dict_get(call.args, "headers", EmptyDict)
      [] call.op \in {"upload", "initiate_multipart_upload"} ->
            UploadHeaders(call.args.content_type, call.args.metadata)
      [] call.op = "download" ->
            IF call.args.byte_range # None /\ call.args.byte_range[1] # ""
            THEN "Range" :> call.args.byte_range[1] ELSE EmptyDict
      [] call.op = "copy_object" ->
            "X-Amz-Copy-Source" :>
               ("/" \o call.args.source_bucket \o "/" \o call.args.source_key)
      [] OTHER -> EmptyDict

\* C23: the headers of every request are the session's default headers
\* merged with the per-call headers: a per-call header is sent with its
\* per-call value (also when the session has a header of that name, in
\* whatever letter case), a default header no per-call header collides with
\* is sent with the session's value, and nothing else is sent; a request of
\* a call without per-call headers carries exactly the default headers.
C23_HeadersAreDefaultsMergedWithPerCall ==
    \A i \in 1..Len(request) :
       LET sent_headers == request[i].headers
           per == PerCallHeaders
       IN  /\ \A k \in DOMAIN per :
                 (\A j \in DOMAIN per : LowerOf[j] = LowerOf[k] => j = k)
                    => k \in DOMAIN sent_headers /\ sent_headers[k] = per[k]
           /\ \A d \in DOMAIN session.headers :
                 (\A j \in DOMAIN per : LowerOf[j] # LowerOf[d])
                    => d \in DOMAIN sent_headers /\ sent_headers[d] = session.headers[d]
           /\ \A k \in DOMAIN sent_headers :
                 /\ \E j \in DOMAIN per \cup DOMAIN session.headers :
                       LowerOf[j] = LowerOf[k]
                 /\ \A j \in DOMAIN sent_headers : LowerOf[j] = LowerOf[k] => j = k
           /\ DOMAIN per = {} => sent_headers = session.headers

\* C23 witness: a request made with the per-call header
\* authorization: Bearer other by a client whose token is "t0" carries the
\* per-call value and the default User-Agent
C23_Witness ==
    /\ pc = "done"
    /\ call.op = "_request"
    /\ "authorization" \in DOMAIN PerCallHeaders
    /\ "Authorization" \in DOMAIN session.headers
    /\ session.headers["Authorization"] = "Bearer t0"
    /\ request[1].headers["authorization"] = "Bearer other"
    /\ "Authorization" \notin DOMAIN request[1].headers
    /\ request[1].headers["User-Agent"] = session.headers["User-Agent"]

ETagOfResponse == dict_get(response[1].headers, "ETag", <<>>)
Quoted(e) ==
    /\ Len(e) >= 2
    /\ e[1] = "\"" /\ e[Len(e)] = "\""
    /\ \A i \in 2..(Len(e) - 1) : e[i] # "\""

\* the ETag the call at hand has returned
ETagReturned ==
    IF call.op = "upload_part" THEN result.value ELSE result.value.etag

C26_MaxKeysIsAtLeastOne ==
    (pc = "done" /\ call.op = "list_objects" /\ result.state = "returned")
    => /\ result.value.max_keys.t = "num"
       /\ result.value.max_keys.v >= 1

(***************************************************************************)
(* Properties of error responses.                                          *)
(***************************************************************************)
\* C27: a response with status >= 400 ends the call with the status-mapped
\* error and no value: nothing of it is decoded, and a download has written
\* nothing to the writer and invoked no callback (the body of such a
\* response is never read).
C27_ErrorResponseIsNeverDecoded ==
    /\ (response # None /\ response[1].status_code >= 400)
       => /\ pc = "done"
          /\ result.state = "raised"
          /\ result.value = None
          /\ result.exc.kind \in StatusMappedKinds
          /\ response[1].status_code \in MappedStatuses
                => /\ result.exc.kind = KindOfStatus(response[1].status_code)
                   /\ result.exc.status_code = Some(response[1].status_code)
          /\ call.op = "download"
                => writer = <<>> /\ progress = <<>> /\ bytes_read = 0
    /\ pc = "downloading" => response[1].status_code < 400

\* C27 witness: a download with a callback answered 404 with a body of two
\* bytes has raised NotFoundError and written nothing
C27_Witness ==
    /\ pc = "done"
    /\ call.op = "download"
    /\ call.args.progress_callback
    /\ response = Some(ErrorResponseWithBody)
    /\ result.exc.kind = "NotFoundError"
    /\ writer = <<>>
    /\ progress = <<>>

(***************************************************************************)
(* Frame properties of the operations.                                     *)
(***************************************************************************)
\* C28: only set_token changes the client's configuration or the session
\* (every other step, of a call that succeeds or fails, leaves both as they
\* were); the session's default headers are never more than User-Agent and
\* Authorization; and every header of a request is a default header or a
\* per-call header of the call that made it, so no per-call header of an
\* earlier operation is sent again.
C28_OperationsLeaveConfigAndSession ==
    /\ [][(config' # config \/ session' # session)
             => pc' = "token_set" /\ call'.op = "set_token"]_vars
    /\ [](DOMAIN session.headers \subseteq {"User-Agent", "Authorization"})
    /\ [](\A i \in 1..Len(request) :
             \A k \in DOMAIN request[i].headers :
                k \in DOMAIN session.headers \/ k \in DOMAIN PerCallHeaders)

\* C28 witness: a copy_object that failed has sent X-Amz-Copy-Source, which
\* the session's headers do not have
C28_Witness ==
    /\ pc = "done"
    /\ call.op = "copy_object"
    /\ result.state = "raised"
    /\ "X-Amz-Copy-Source" \in DOMAIN request[1].headers
    /\ "X-Amz-Copy-Source" \notin DOMAIN session.headers
    /\ "Authorization" \in DOMAIN session.headers

\* C29: between operations, after any sequence of constructions and
\* set_token calls, the session has an Authorization header exactly when
\* config.token is non-empty, and then it is "Bearer " followed by the
\* token. Violated: set_token("") stores the empty token and sets the
\* header to "Bearer ".
C29_TokenAndHeaderAgree ==
    pc \in {"idle", "token_set"}
    => /\ "Authorization" \in DOMAIN session.headers <=> Truthy(config.token)
       /\ Truthy(config.token)
             => session.headers["Authorization"] = "Bearer " \o config.token[1]

(***************************************************************************)
(* Properties of the progress callback.                                    *)
(***************************************************************************)
\* C30: in an upload or download with a progress callback the values given
\* to the callback are strictly increasing and the first is greater than
\* 0; each is the number of bytes transferred when it is given; a step
\* that transfers nothing (an empty read or chunk, the end of the stream)
\* invokes no callback, and a transfer of zero bytes invokes none at all;
\* and a transfer that has returned has reported the length of the data as
\* its last value whatever the size argument of the upload and whatever
\* the Content-Length of the response to the download are.
C30_CallbackOnlyForBytesTransferred ==
    /\ []((call.op \in {"upload", "download"} /\ call.args.progress_callback)
          => /\ \A i, j \in 1..Len(progress) : i < j => progress[i] < progress[j]
             /\ progress # <<>> => progress[1] > 0
             /\ progress # <<>> => progress[Len(progress)] = Transferred
             /\ Transferred = 0 => progress = <<>>
             /\ (pc = "done" /\ result.state = "returned")
                => LET n == IF call.op = "upload" THEN Len(call.args.data)
                            ELSE Len(response[1].content)
                   IN  /\ n = 0 => progress = <<>>
                       /\ n > 0 => progress[Len(progress)] = n)
    /\ [][(pc \in {"uploading", "downloading"} /\ call.args.progress_callback)
          => IF Transferred' = Transferred
             THEN progress' = progress
             ELSE /\ Transferred' > Transferred
                  /\ progress' = Append(progress, Transferred')]_vars

\* C30 witness: a download of two bytes in two chunks, answered with
\* Content-Length: 0, has returned after the callback values 1, 2
C30_Witness ==
    /\ pc = "done"
    /\ call.op = "download"
    /\ call.args.progress_callback
    /\ result.state = "returned"
    /\ response[1].headers = ("Content-Length" :> "0")
    /\ Len(response[1].content) = 2
    /\ progress = <<1, 2>>
====
